---- MODULE Spec2Model ----
(***************************************************************************)
(* Model of the CapturePoint synchronisation backend                       *)
(* (src/src/server_files/mobile_api.py, projects.py, features.py and the   *)
(* two collected_* models).                                                *)
(*                                                                         *)
(* The database is a pair of tables (features, points) holding committed   *)
(* rows.  A request runs in its own session: rows it inserts or updates    *)
(* live in the request's overlay (sf, sp) until db.session.commit() copies *)
(* them into the tables, or db.session.rollback() drops them.  Queries of  *)
(* a request see the committed tables overlaid with its own writes         *)
(* (read committed, autoflush).                                            *)
(*                                                                         *)
(* Instants are integers (UTC ticks).  A timestamp on the wire is a record *)
(* with a local time and a UTC offset, or a value that does not parse.     *)
(***************************************************************************)
EXTENDS Integers, Sequences, FiniteSets, TLC

(***************************************************************************)
(* Bounds of the model.                                                    *)
(***************************************************************************)
MaxClock == 2      \* the server clock runs over 1..MaxClock
MaxBatch == 2      \* entries per sync batch
MaxRequests == 2   \* requests started in one behaviour

(***************************************************************************)
(* Values.                                                                 *)
(***************************************************************************)
NoneStr == "None"          \* Python None / absent key of a string field
NoTime == -1               \* parse_iso_datetime's None
Epoch == 0                 \* datetime.utcfromtimestamp(0)
NoRow == 0                 \* .first() on an empty result
NoProjectSelected == 0     \* session.get('project_id') of a session without one

Projects == {1, 2}         \* rows of the project table
MissingProject == 3        \* an id with no project row
Users == {1, 2}            \* identities handed out by the JWT provider
Slots == {1, 2}            \* request workers

FeatureTypes == {"Point", "Line", "Polygon"}

\* the elements of a sequence
Range(seq) == {seq[i] : i \in DOMAIN seq}

MaxOf(S) == CHOOSE m \in S : \A x \in S : x <= m
MinOf(S) == CHOOSE m \in S : \A x \in S : m <= x

RECURSIVE SortedSeq(_)
\* the elements of a finite set of integers in increasing order
SortedSeq(S) == IF S = {} THEN <<>> ELSE <<MinOf(S)>> \o SortedSeq(S \ {MinOf(S)})

(***************************************************************************)
(* Timestamps on the wire.                                                 *)
(***************************************************************************)
Missing == [kind |-> "missing", local |-> 0, off |-> 0]
Garbage == [kind |-> "garbage", local |-> 0, off |-> 0]
Iso(t, o) == [kind |-> "iso", local |-> t, off |-> o]

\* mobile_api.parse_iso_datetime: None for a missing or unparseable value,
\* else the instant converted to UTC.
parse_iso_datetime(v) == IF v.kind # "iso" THEN NoTime ELSE v.local - v.off

\* datetime.isoformat() of a UTC instant
isoformat(t) == Iso(t, 0)

(***************************************************************************)
(* Attribute maps (JSON objects): sets of <<key, value>> pairs.            *)
(***************************************************************************)
HasKey(m, k) == \E kv \in m : kv[1] = k
GetKey(m, k, d) == IF HasKey(m, k) THEN (CHOOSE kv \in m : kv[1] = k)[2] ELSE d
\* an optional map is <<>> (absent or null) or <<m>>
OrEmpty(opt) == IF opt = <<>> THEN {} ELSE opt[1]

\* lines 93-95 / 158-160 without the tests of lines 94 and 159: the
\* request's timezone replaces the one of the payload
BackfillTimezone_overwriting(opt, client_timezone) ==
    LET m == OrEmpty(opt) IN
    {kv \in m : kv[1] # "timezone"} \cup {<<"timezone", client_timezone>>}

\* lines 93-95 / 158-160: add the request's timezone when the key is absent
BackfillTimezone(opt, client_timezone) ==
    LET m == OrEmpty(opt) IN
    IF HasKey(m, "timezone") THEN m ELSE m \cup {<<"timezone", client_timezone>>}

\* dict.get(key, default) on a string field whose absence is NoneStr
GetStr(v, d) == IF v = NoneStr THEN d ELSE v

(***************************************************************************)
(* State.                                                                  *)
(***************************************************************************)
VARIABLES
    clock,      \* datetime.utcnow() of the server
    features,   \* committed CollectedFeatures rows, by id
    points,     \* committed CollectedPoints rows, by id
    req,        \* per worker: the request it is serving
    started,    \* number of requests started so far
    prev        \* history: the last committed batch, when batches are recorded

vars == <<clock, features, points, req, started, prev>>

IdleReq ==
    [pc |-> "idle", endpoint |-> "none", project_id |-> 0, user |-> 0,
     body |-> "none", tz |-> NoneStr, server_time |-> 0, n |-> 0,
     sf |-> <<>>, sp |-> <<>>, coll |-> <<>>,
     processed |-> <<>>, failed |-> <<>>,
     cursor |-> Epoch, changes |-> <<>>,
     status |-> 0, error |-> "none",
     \* history of the batch: the clientIds pushed, the clientIds of the
     \* deleted=true entries, the outcomes of the entries, the entry
     \* processed last, the entries
     pushed |-> {}, dels |-> {}, acts |-> {}, last |-> <<>>, batch |-> <<>>]

NoPrev == [project_id |-> 0, user |-> 0, batch |-> <<>>, acts |-> {},
           processed |-> <<>>]

\* The tables as the session of worker r sees them.
Overlay(table, sess) ==
    [id \in DOMAIN table \cup DOMAIN sess |->
        IF id \in DOMAIN sess THEN sess[id] ELSE table[id]]

ViewF(r) == Overlay(features, req[r].sf)
ViewP(r) == Overlay(points, req[r].sp)

\* CollectedFeatures.points (collected_features_model.py, lines 24-25) is
\* loaded with the query that first returns the Feature to the session
\* (lazy='selectin') and is not loaded again in that session: req[r].coll
\* maps the id of such a Feature to the ids of the points it was loaded
\* with.  The points that worker r reaches through feature.points:
RelationshipP(r) ==
    LET pv == ViewP(r)
        reached == {pid \in DOMAIN pv :
                       pv[pid].feature_id \in DOMAIN req[r].coll
                       => pid \in req[r].coll[pv[pid].feature_id]}
    IN  [pid \in reached |-> pv[pid]]

\* the session of worker r after a query returned the Feature row got
Loaded(r, got) ==
    IF got = NoRow \/ got \in DOMAIN req[r].coll THEN req[r].coll
    ELSE Overlay(req[r].coll,
                 [i \in {got} |-> {pid \in DOMAIN ViewP(r) :
                                      ViewP(r)[pid].feature_id = got}])

\* ids handed out so far, committed or not (the id sequences of the store)
UsedFeatureIds == DOMAIN features \cup UNION {DOMAIN req[s].sf : s \in Slots}
UsedPointIds == DOMAIN points \cup UNION {DOMAIN req[s].sp : s \in Slots}
NewId(used) == IF used = {} THEN 1 ELSE MaxOf(used) + 1

\* Row locks: a row updated by an uncommitted session blocks other writers.
LockedByOther(r, fid) == \E s \in Slots \ {r} : fid \in DOMAIN req[s].sf
PointLockedByOther(r, pid) == \E s \in Slots \ {r} : pid \in DOMAIN req[s].sp

Init ==
    /\ clock = 1
    /\ features = <<>>
    /\ points = <<>>
    /\ req = [r \in Slots |-> IdleReq]
    /\ started = 0
    /\ prev = NoPrev

(***************************************************************************)
(* sync_project, lines 137-184: the points of one feature payload.         *)
(* A step result is [st, sp]: st is "ok", "raise" (an exception leaves the *)
(* loop) or "blocked" (the row is locked by another session); sp is the    *)
(* session's point overlay.                                                *)
(***************************************************************************)
\* lines 151-155: coords defaulting to [0,0], then Point(coords[0], coords[1])
PointGeom(coords) ==
    IF ~coords.list \/ Len(coords.v) < 2 THEN <<0, 0>>
    ELSE <<coords.v[1], coords.v[2]>>

\* lines 171-183 with is_active=False at line 182
NewPoint_inactive(pid, pd, fid, c) ==
    [id |-> pid, client_id |-> pd.client_id, fcode |-> GetStr(pd.fcode, ""),
     coords |-> PointGeom(pd.coords),
     attributes |-> BackfillTimezone(pd.attributes, c.tz),
     project_id |-> c.project_id, feature_id |-> fid,
     created_by |-> c.user,
     created_at |-> IF parse_iso_datetime(pd.created_at) # NoTime
                    THEN parse_iso_datetime(pd.created_at) ELSE c.server_time,
     updated_at |-> c.server_time, updated_by |-> c.user, is_active |-> FALSE]

\* lines 171-183
NewPoint(pid, pd, fid, c) ==
    [id |-> pid, client_id |-> pd.client_id, fcode |-> GetStr(pd.fcode, ""),
     coords |-> PointGeom(pd.coords),
     attributes |-> BackfillTimezone(pd.attributes, c.tz),
     project_id |-> c.project_id, feature_id |-> fid,
     created_by |-> c.user,
     created_at |-> IF parse_iso_datetime(pd.created_at) # NoTime
                    THEN parse_iso_datetime(pd.created_at) ELSE c.server_time,
     updated_at |-> c.server_time, updated_by |-> c.user, is_active |-> TRUE]

\* lines 164-168 without line 167
UpdatedPoint_unstamped(row, pd, c) ==
    [row EXCEPT !.coords = PointGeom(pd.coords),
                !.fcode = GetStr(pd.fcode, row.fcode),
                !.attributes = BackfillTimezone(pd.attributes, c.tz),
                !.updated_by = c.user]

\* lines 164-168
UpdatedPoint(row, pd, c) ==
    [row EXCEPT !.coords = PointGeom(pd.coords),
                !.fcode = GetStr(pd.fcode, row.fcode),
                !.attributes = BackfillTimezone(pd.attributes, c.tz),
                !.updated_at = c.server_time,
                !.updated_by = c.user]

\* lines 139-184 with the lookup of lines 145-148 by client_id alone
ProcPoint_byClientId(sp, pd, fid, c) ==
    LET view == Overlay(points, sp)
        matches == {id \in DOMAIN view : view[id].client_id = pd.client_id}
        pid == NewId(UsedPointIds \cup DOMAIN sp)
    IN  IF pd.kind # "object" THEN {[st |-> "raise", sp |-> sp]}
        ELSE IF pd.client_id = NoneStr THEN {[st |-> "ok", sp |-> sp]}
        ELSE IF matches = {}
             THEN {[st |-> "ok",
                    sp |-> Overlay(sp, [i \in {pid} |-> NewPoint(pid, pd, fid, c)])]}
        ELSE {IF PointLockedByOther(c.r, id)
              THEN [st |-> "blocked", sp |-> sp]
              ELSE [st |-> "ok",
                    sp |-> Overlay(sp, [i \in {id} |-> UpdatedPoint(view[id], pd, c)])]
              : id \in matches}

\* lines 139-184 for one point payload
ProcPoint(sp, pd, fid, c) ==
    LET view == Overlay(points, sp)
        matches == {id \in DOMAIN view : /\ view[id].client_id = pd.client_id
                                         /\ view[id].feature_id = fid}
        pid == NewId(UsedPointIds \cup DOMAIN sp)
    IN  IF pd.kind # "object" THEN {[st |-> "raise", sp |-> sp]}
        ELSE IF pd.client_id = NoneStr THEN {[st |-> "ok", sp |-> sp]}
        ELSE IF matches = {}
             THEN {[st |-> "ok",
                    sp |-> Overlay(sp, [i \in {pid} |-> NewPoint(pid, pd, fid, c)])]}
        ELSE {IF PointLockedByOther(c.r, id)
              THEN [st |-> "blocked", sp |-> sp]
              ELSE [st |-> "ok",
                    sp |-> Overlay(sp, [i \in {id} |-> UpdatedPoint(view[id], pd, c)])]
              : id \in matches}

RECURSIVE ProcPoints(_, _, _, _, _)
\* the loop of line 139 from payload index i on; the set of possible results
ProcPoints(sp, pds, i, fid, c) ==
    IF i > Len(pds) THEN {[st |-> "ok", sp |-> sp]}
    ELSE UNION {IF res.st # "ok" THEN {res}
                ELSE ProcPoints(res.sp, pds, i + 1, fid, c)
                : res \in ProcPoint(sp, pds[i], fid, c)}

(***************************************************************************)
(* sync_project, lines 64-186: one entry of the batch.                     *)
(* A result is [st, sf, sp, processed, failed, tag, got]; tag names the     *)
(* branch the entry took, got is the row its query returned (or NoRow).    *)
(***************************************************************************)
Ctx(r) == [r |-> r, project_id |-> req[r].project_id, user |-> req[r].user,
           tz |-> req[r].tz, server_time |-> req[r].server_time]

\* lines 74-77 / 99-102 without project_id=project_id
FeatureMatches_anyProject(r, client_id, project_id) ==
    {id \in DOMAIN ViewF(r) : ViewF(r)[id].client_id = client_id}

\* CollectedFeatures.query.filter_by(client_id=, project_id=) as worker r sees it
FeatureMatches(r, client_id, project_id) ==
    {id \in DOMAIN ViewF(r) : /\ ViewF(r)[id].client_id = client_id
                              /\ ViewF(r)[id].project_id = project_id}

\* .first(): a row of the result (the query has no ORDER BY), or none
First(matches) == IF matches = {} THEN {NoRow} ELSE matches

\* lines 80-82
DeactivatedFeature(row, c) ==
    [row EXCEPT !.is_active = FALSE,
                !.updated_at = c.server_time,
                !.updated_by = c.user]

\* line 107 with the timestamp comparison dropped
ClientIsNewer_always(client_modified, updated_at) ==
    client_modified # NoTime

\* line 107 with >= for >
ClientIsNewer_orEqual(client_modified, updated_at) ==
    client_modified # NoTime /\ client_modified >= updated_at

\* line 107: the client version is newer
ClientIsNewer(client_modified, updated_at) ==
    client_modified # NoTime /\ client_modified > updated_at

\* lines 109-114 with is_active set as in the constructor call of line 132
UpdatedFeature_reactivating(row, d, c) ==
    [row EXCEPT !.name = GetStr(d.name, row.name),
                !.draw_layer = GetStr(d.draw_layer, row.draw_layer),
                !.type = GetStr(d.type, row.type),
                !.attributes = BackfillTimezone(d.attributes, c.tz),
                !.updated_at = c.server_time,
                !.updated_by = c.user,
                !.is_active = TRUE]

\* lines 109-114
UpdatedFeature(row, d, c) ==
    [row EXCEPT !.name = GetStr(d.name, row.name),
                !.draw_layer = GetStr(d.draw_layer, row.draw_layer),
                !.type = GetStr(d.type, row.type),
                !.attributes = BackfillTimezone(d.attributes, c.tz),
                !.updated_at = c.server_time,
                !.updated_by = c.user]

\* lines 121-133
NewFeature(fid, client_id, d, c) ==
    [id |-> fid, client_id |-> client_id,
     draw_layer |-> d.draw_layer, type |-> d.type, name |-> d.name,
     project_id |-> c.project_id,
     attributes |-> BackfillTimezone(d.attributes, c.tz),
     created_by |-> c.user,
     created_at |-> IF parse_iso_datetime(d.created_at) # NoTime
                    THEN parse_iso_datetime(d.created_at) ELSE c.server_time,
     updated_at |-> c.server_time, updated_by |-> c.user, is_active |-> TRUE]

\* the column constraints of CollectedFeatures that a flush enforces:
\* draw_layer and type are NOT NULL, type is the enum feature_types
FeatureRowValid(row) ==
    /\ row.draw_layer # NoneStr
    /\ row.type \in FeatureTypes

EntryResult(st, sf, sp, processed, failed, tag, got) ==
    [st |-> st, sf |-> sf, sp |-> sp, processed |-> processed, failed |-> failed,
     tag |-> tag, got |-> got]

\* lines 86-186 for a non-deleted entry with a payload, given the row
\* that .first() returned
ApplyFeature(r, e, existing) ==
    LET q == req[r]
        c == Ctx(r)
        d == e.data[1]
        fid == IF existing = NoRow THEN NewId(UsedFeatureIds) ELSE existing
        client_modified == parse_iso_datetime(e.lastModified)
        applied == /\ existing # NoRow
                   /\ ClientIsNewer(client_modified, ViewF(r)[existing].updated_at)
        row == IF existing = NoRow THEN NewFeature(fid, e.clientId, d, c)
               ELSE IF applied THEN UpdatedFeature(ViewF(r)[existing], d, c)
               ELSE ViewF(r)[existing]
        sf == IF existing = NoRow \/ applied
              THEN Overlay(q.sf, [i \in {fid} |-> row]) ELSE q.sf
        tag == IF existing = NoRow THEN "created"
               ELSE IF applied THEN "updated"
               ELSE IF client_modified = NoTime THEN "undated"
               ELSE IF client_modified = ViewF(r)[existing].updated_at THEN "tie"
               ELSE "stale"
    IN  IF applied /\ LockedByOther(r, existing)
        THEN {EntryResult("blocked", q.sf, q.sp, q.processed, q.failed, tag, existing)}
        ELSE IF ~FeatureRowValid(row)
        THEN {EntryResult("raise", sf, q.sp, q.processed, q.failed, "raise", existing)}
        ELSE {EntryResult(res.st, sf, res.sp,
                          Append(q.processed, e.clientId), q.failed,
                          IF res.st = "raise" THEN "raise" ELSE tag, existing)
              : res \in ProcPoints(q.sp, d.points, 1, fid, c)}

\* lines 65-186 without the test of line 79: the assignment of line 80 to
\* None raises
ApplyEntry_uncheckedDelete(r, e) ==
    LET q == req[r]
        c == Ctx(r)
    IN  IF e.kind # "object"
        THEN {EntryResult("raise", q.sf, q.sp, q.processed, q.failed, "raise", NoRow)}
        ELSE IF e.clientId = NoneStr
        THEN {EntryResult("ok", q.sf, q.sp, q.processed, q.failed, "noid", NoRow)}
        ELSE IF e.deleted
        THEN {IF existing = NoRow
              THEN EntryResult("raise", q.sf, q.sp, q.processed, q.failed, "nodelete", NoRow)
              ELSE IF LockedByOther(r, existing)
              THEN EntryResult("blocked", q.sf, q.sp, q.processed, q.failed, "deleted",
                                existing)
              ELSE EntryResult("ok",
                       Overlay(q.sf, [i \in {existing} |->
                                        DeactivatedFeature(ViewF(r)[existing], c)]),
                       q.sp, Append(q.processed, e.clientId), q.failed, "deleted",
                       existing)
              : existing \in First(FeatureMatches(r, e.clientId, q.project_id))}
        ELSE IF e.data = <<>>
        THEN {EntryResult("ok", q.sf, q.sp, q.processed,
                          Append(q.failed, e.clientId), "failed", NoRow)}
        ELSE UNION {ApplyFeature(r, e, existing)
                    : existing \in First(FeatureMatches(r, e.clientId, q.project_id))}

\* lines 65-186 for one entry
ApplyEntry(r, e) ==
    LET q == req[r]
        c == Ctx(r)
    IN  IF e.kind # "object"
        THEN {EntryResult("raise", q.sf, q.sp, q.processed, q.failed, "raise", NoRow)}
        ELSE IF e.clientId = NoneStr
        THEN {EntryResult("ok", q.sf, q.sp, q.processed, q.failed, "noid", NoRow)}
        ELSE IF e.deleted
        THEN {IF existing = NoRow
              THEN EntryResult("ok", q.sf, q.sp, q.processed, q.failed, "nodelete", NoRow)
              ELSE IF LockedByOther(r, existing)
              THEN EntryResult("blocked", q.sf, q.sp, q.processed, q.failed, "deleted",
                                existing)
              ELSE EntryResult("ok",
                       Overlay(q.sf, [i \in {existing} |->
                                        DeactivatedFeature(ViewF(r)[existing], c)]),
                       q.sp, Append(q.processed, e.clientId), q.failed, "deleted",
                       existing)
              : existing \in First(FeatureMatches(r, e.clientId, q.project_id))}
        ELSE IF e.data = <<>>
        THEN {EntryResult("ok", q.sf, q.sp, q.processed,
                          Append(q.failed, e.clientId), "failed", NoRow)}
        ELSE UNION {ApplyFeature(r, e, existing)
                    : existing \in First(FeatureMatches(r, e.clientId, q.project_id))}

(***************************************************************************)
(* get_server_changes_since, lines 216-283.                                *)
(***************************************************************************)
\* lines 246-260: the active points of a feature, in id order; pv holds the
\* points reached through feature.points
FeaturePoints(fv, pv, fid) ==
    LET ids == {id \in DOMAIN pv : pv[id].feature_id = fid /\ pv[id].is_active}
        ord == SortedSeq(ids)
    IN  [i \in 1..Len(ord) |->
            [client_id |-> pv[ord[i]].client_id,
             fcode |-> pv[ord[i]].fcode,
             coords |-> pv[ord[i]].coords,
             attributes |-> pv[ord[i]].attributes,
             updated_at |-> isoformat(pv[ord[i]].updated_at),
             is_active |-> pv[ord[i]].is_active]]

\* lines 264-281
ChangeRecord(fv, pv, fid) ==
    [clientId |-> fv[fid].client_id,
     lastModified |-> isoformat(fv[fid].updated_at),
     deleted |-> ~fv[fid].is_active,
     name |-> fv[fid].name,
     draw_layer |-> fv[fid].draw_layer,
     type |-> fv[fid].type,
     project_id |-> fv[fid].project_id,
     attributes |-> fv[fid].attributes,
     updated_by |-> fv[fid].updated_by,
     points |-> IF fv[fid].is_active THEN FeaturePoints(fv, pv, fid) ELSE <<>>]

\* lines 237-239 without the filter of line 238
get_server_changes_since_anyProject(fv, pv, project_id, last_sync_time) ==
    LET ids == {id \in DOMAIN fv : fv[id].updated_at > last_sync_time}
        ord == SortedSeq(ids)
    IN  [i \in 1..Len(ord) |-> ChangeRecord(fv, pv, ord[i])]

get_server_changes_since(fv, pv, project_id, last_sync_time) ==
    LET ids == {id \in DOMAIN fv : /\ fv[id].project_id = project_id
                                   /\ fv[id].updated_at > last_sync_time}
        kept == {id \in ids : fv[id].is_active \/ fv[id].updated_at > last_sync_time}
        ord == SortedSeq(kept)
    IN  [i \in 1..Len(ord) |-> ChangeRecord(fv, pv, ord[i])]

(***************************************************************************)
(* projects.sync_web_features, lines 394-499: one entry of the batch.      *)
(* An entry is a flat object: client_id, type, draw_layer, name,           *)
(* attributes, created_at, coords.                                         *)
(***************************************************************************)
\* line 402: the default of name (f"Feature {client_id}")
DefaultName == "Feature"

\* the parse_iso_datetime of lines 372-389: a missing or unparseable value
\* is datetime.utcnow() at the time of the call
WebParseCreated(v) == IF parse_iso_datetime(v) = NoTime THEN clock
                      ELSE parse_iso_datetime(v)

\* lines 428-432: no comparison of timestamps; updated_by and is_active are
\* left as they are
\* lines 426-433 with is_active set as for a new Feature
WebUpdatedFeature_reactivating(row, e, c) ==
    [row EXCEPT !.name = GetStr(e.name, DefaultName),
                !.draw_layer = e.draw_layer,
                !.type = e.type,
                !.updated_at = c.server_time,
                !.attributes = OrEmpty(e.attributes),
                !.is_active = TRUE]

WebUpdatedFeature(row, e, c) ==
    [row EXCEPT !.name = GetStr(e.name, DefaultName),
                !.draw_layer = e.draw_layer,
                !.type = e.type,
                !.updated_at = c.server_time,
                !.attributes = OrEmpty(e.attributes)]

\* lines 436-449; is_active takes the column default
WebNewFeature(fid, e, c) ==
    [id |-> fid, client_id |-> e.client_id,
     draw_layer |-> e.draw_layer, type |-> e.type,
     name |-> GetStr(e.name, DefaultName),
     project_id |-> c.project_id,
     attributes |-> OrEmpty(e.attributes),
     created_by |-> c.user, created_at |-> WebParseCreated(e.created_at),
     updated_at |-> c.server_time, updated_by |-> c.user, is_active |-> TRUE]

\* lines 456-466: the default [0, 0], then longitude, latitude = coords;
\* <<>> when len() or the unpacking raises
WebPointGeom(coords) ==
    IF ~coords.list THEN <<>>
    ELSE IF Len(coords.v) < 2 THEN <<0, 0>>
    ELSE IF Len(coords.v) > 2 THEN <<>>
    ELSE <<coords.v[1], coords.v[2]>>

\* lines 476-479
WebUpdatedPoint(row, e, c) ==
    [row EXCEPT !.coords = WebPointGeom(e.coords),
                !.attributes = OrEmpty(e.attributes),
                !.updated_at = c.server_time]

\* str(draw_layer)[:5] of line 484, on the layer names of the model: all
\* but "Electric" have at most five characters
Prefix5(draw_layer) == IF draw_layer = "Electric" THEN "Elect" ELSE draw_layer

\* lines 482-495
WebNewPoint(pid, e, fid, c) ==
    [id |-> pid, client_id |-> e.client_id, fcode |-> Prefix5(e.draw_layer),
     coords |-> WebPointGeom(e.coords),
     attributes |-> OrEmpty(e.attributes),
     project_id |-> c.project_id, feature_id |-> fid,
     created_by |-> c.user, created_at |-> WebParseCreated(e.created_at),
     updated_at |-> c.server_time, updated_by |-> c.user, is_active |-> TRUE]

\* lines 455-496: the point of a Point feature, keyed by the feature's
\* client_id; features of another type get no point
WebProcPoint(sp, e, fid, c) ==
    LET view == Overlay(points, sp)
        matches == {id \in DOMAIN view : /\ view[id].client_id = e.client_id
                                         /\ view[id].feature_id = fid}
        pid == NewId(UsedPointIds \cup DOMAIN sp)
    IN  IF e.type # "Point" THEN {[st |-> "ok", sp |-> sp]}
        ELSE IF WebPointGeom(e.coords) = <<>> THEN {[st |-> "raise", sp |-> sp]}
        ELSE IF matches = {}
             THEN {[st |-> "ok",
                    sp |-> Overlay(sp, [i \in {pid} |-> WebNewPoint(pid, e, fid, c)])]}
        ELSE {IF PointLockedByOther(c.r, id)
              THEN [st |-> "blocked", sp |-> sp]
              ELSE [st |-> "ok",
                    sp |-> Overlay(sp, [i \in {id} |-> WebUpdatedPoint(view[id], e, c)])]
              : id \in matches}

\* lines 420-499 given the row that .first() returned
WebApplyFeature(r, e, existing) ==
    LET q == req[r]
        c == Ctx(r)
        fid == IF existing = NoRow THEN NewId(UsedFeatureIds) ELSE existing
        row == IF existing = NoRow THEN WebNewFeature(fid, e, c)
               ELSE WebUpdatedFeature(ViewF(r)[existing], e, c)
        sf == Overlay(q.sf, [i \in {fid} |-> row])
        tag == IF existing = NoRow THEN "created" ELSE "updated"
    IN  IF existing # NoRow /\ LockedByOther(r, existing)
        THEN {EntryResult("blocked", q.sf, q.sp, q.processed, q.failed, tag, existing)}
        ELSE IF ~FeatureRowValid(row)
        THEN {EntryResult("raise", sf, q.sp, q.processed, q.failed, "raise", existing)}
        ELSE {EntryResult(res.st, sf, res.sp,
                          Append(q.processed, e.client_id), q.failed,
                          IF res.st = "raise" THEN "raise" ELSE tag, existing)
              : res \in WebProcPoint(q.sp, e, fid, c)}

\* lines 395-499 for one entry; processed is synced_ids
WebApplyEntry(r, e) ==
    LET q == req[r]
    IN  IF e.kind # "object"
        THEN {EntryResult("raise", q.sf, q.sp, q.processed, q.failed, "raise", NoRow)}
        ELSE IF e.client_id = NoneStr
        THEN {EntryResult("ok", q.sf, q.sp, q.processed, q.failed, "noid", NoRow)}
        ELSE UNION {WebApplyFeature(r, e, existing)
                    : existing \in First(FeatureMatches(r, e.client_id, q.project_id))}

\* lines 517-520 and 540-551: the active points of a feature, by a query of
\* its own (in id order)
WebFeaturePoints(pv, fid) ==
    LET ids == {id \in DOMAIN pv : pv[id].feature_id = fid /\ pv[id].is_active}
        ord == SortedSeq(ids)
    IN  [i \in 1..Len(ord) |->
            [client_id |-> pv[ord[i]].client_id,
             fcode |-> pv[ord[i]].fcode,
             coords |-> pv[ord[i]].coords,
             attributes |-> pv[ord[i]].attributes,
             updated_at |-> isoformat(pv[ord[i]].updated_at)]]

\* lines 554-567; the record has no deleted field
WebFeatureRecord(fv, pv, fid) ==
    [clientId |-> fv[fid].client_id,
     lastModified |-> isoformat(fv[fid].updated_at),
     name |-> fv[fid].name,
     draw_layer |-> fv[fid].draw_layer,
     type |-> fv[fid].type,
     project_id |-> fv[fid].project_id,
     coords |-> WebFeaturePoints(pv, fid)[1].coords,
     updated_by |-> fv[fid].updated_by,
     points |-> WebFeaturePoints(pv, fid)]

\* lines 501-568: serverFeatures.  Nothing is returned without a cursor;
\* inactive features, the client_ids just synced and features without an
\* active point are left out.
web_server_features(fv, pv, project_id, last_sync_dt, synced_ids) ==
    LET ids == {id \in DOMAIN fv : /\ fv[id].project_id = project_id
                                   /\ fv[id].is_active
                                   /\ fv[id].updated_at > last_sync_dt
                                   /\ fv[id].client_id \notin synced_ids}
        kept == {id \in ids : WebFeaturePoints(pv, id) # <<>>}
        ord == SortedSeq(kept)
    IN  IF last_sync_dt = NoTime THEN <<>>
        ELSE [i \in 1..Len(ord) |-> WebFeatureRecord(fv, pv, ord[i])]

(***************************************************************************)
(* The session.                                                            *)
(***************************************************************************)
\* db.session.commit(), line 192: the session's rows reach the table
SessionCommit(table, sess) == Overlay(table, sess)

\* line 203 with the session's rows written through
SessionRollback_partial(table, sess) == Overlay(table, sess)

\* db.session.rollback(), line 203: the session's rows are dropped
SessionRollback(table, sess) == table

\* lines 29-30 without the lookup
ProjectExists_any(project_id) == TRUE

\* Project.query.get(project_id), lines 29-30
ProjectExists(project_id) == project_id \in Projects

(***************************************************************************)
(* sync_project as steps of worker r.                                      *)
(***************************************************************************)
Respond(q, status, error) ==
    [q EXCEPT !.pc = "done", !.status = status, !.error = error]

\* lines 202-207: the response carries only success=false and a message
Failed(q, error) ==
    [IdleReq EXCEPT !.pc = "done", !.endpoint = q.endpoint,
                    !.project_id = q.project_id, !.user = q.user,
                    !.body = q.body, !.status = 500, !.error = error]

\* lines 24-59 and the head of the loop of line 64.  now is the value of
\* datetime.utcnow() at line 55, which never runs backwards.  body is
\* "notobject" (or an empty object), or an object whose features field is a
\* "list", is "absent" or is "notlist" (a value that cannot be iterated).
\* limit bounds the number of requests of a behaviour.
SyncStart(r, limit, project_id, user, body, timezone, now) ==
    /\ req[r].pc = "idle"
    /\ started < limit
    /\ started' = started + 1
    /\ now \in clock..MaxClock
    /\ clock' = now
    /\ LET q == [IdleReq EXCEPT !.endpoint = "sync_project",
                                !.project_id = project_id, !.user = user,
                                !.body = body]
       IN  req' = [req EXCEPT ![r] =
              IF ~ProjectExists(project_id) THEN Respond(q, 404, "not found")
              ELSE IF body = "notobject" THEN Respond(q, 400, "invalid request")
              ELSE LET b == [q EXCEPT !.pc = "applying",
                                      !.tz = GetStr(timezone, "UTC"),
                                      !.server_time = now,
                                      !.n = IF body = "list" THEN 0 ELSE MaxBatch]
                   IN  IF body = "notlist" THEN Failed(b, "exception") ELSE b]
    /\ UNCHANGED <<features, points, prev>>

\* lines 64-186: the next entry of the batch; an exception that leaves the
\* loop is caught at line 202.  record: the batch is kept as history.
SyncEntry(r, e, record) ==
    /\ req[r].pc = "applying"
    /\ req[r].n < MaxBatch
    /\ \E res \in ApplyEntry(r, e) :
          /\ res.st # "blocked"
          /\ LET q == [req[r] EXCEPT !.n = @ + 1,
                                     !.sf = res.sf, !.sp = res.sp,
                                     !.coll = Loaded(r, res.got),
                                     !.processed = res.processed,
                                     !.failed = res.failed,
                                     !.pushed = IF e.kind = "object" /\ e.clientId # NoneStr
                                                THEN @ \cup {e.clientId} ELSE @,
                                     !.dels = IF e.kind = "object" /\ e.clientId # NoneStr
                                                 /\ e.deleted
                                              THEN @ \cup {e.clientId} ELSE @,
                                     !.acts = @ \cup {res.tag},
                                     !.last = <<e>>,
                                     !.batch = IF record THEN Append(@, e) ELSE @]
             IN  IF res.st = "raise"
                 THEN /\ req' = [req EXCEPT ![r] =
                                    [Failed(q, "exception") EXCEPT !.last = <<e>>,
                                                                   !.acts = q.acts]]
                      /\ features' = SessionRollback(features, res.sf)
                      /\ points' = SessionRollback(points, res.sp)
                 ELSE /\ req' = [req EXCEPT ![r] = q]
                      /\ UNCHANGED <<features, points>>
    /\ UNCHANGED <<clock, started, prev>>

\* lines 52 and 188-189: the batch is exhausted, the changes are collected.
\* The cursor is an input of the request that only this step reads.
SyncExtract(r, client_last_sync) ==
    /\ req[r].pc = "applying"
    /\ LET parsed == parse_iso_datetime(client_last_sync)
           last_sync_time == IF parsed # NoTime THEN parsed ELSE Epoch
       IN  req' = [req EXCEPT ![r].pc = "extracted",
                              ![r].last = <<>>,
                              ![r].cursor = last_sync_time,
                              ![r].coll = <<>>,
                              ![r].changes = get_server_changes_since(
                                  ViewF(r), RelationshipP(r), req[r].project_id,
                                  last_sync_time)]
    /\ UNCHANGED <<clock, features, points, started, prev>>

\* lines 191-200 placed before line 189: the commit does not wait for the
\* extraction
SyncCommit_beforeExtract(r, record) ==
    /\ req[r].pc = "applying"
    /\ features' = SessionCommit(features, req[r].sf)
    /\ points' = SessionCommit(points, req[r].sp)
    /\ req' = [req EXCEPT ![r] = [Respond(req[r], 200, "none")
                                    EXCEPT !.sf = <<>>, !.sp = <<>>]]
    /\ prev' = prev
    /\ UNCHANGED <<clock, started>>

\* lines 191-200
SyncCommit(r, record) ==
    /\ req[r].pc = "extracted"
    /\ features' = SessionCommit(features, req[r].sf)
    /\ points' = SessionCommit(points, req[r].sp)
    /\ req' = [req EXCEPT ![r] = [Respond(req[r], 200, "none")
                                    EXCEPT !.sf = <<>>, !.sp = <<>>]]
    /\ prev' = IF record
               THEN [project_id |-> req[r].project_id, user |-> req[r].user,
                     batch |-> req[r].batch, acts |-> req[r].acts,
                     processed |-> req[r].processed]
               ELSE prev
    /\ UNCHANGED <<clock, started>>

\* sync_web_features, lines 335-394: as lines 24-64 of sync_project, without
\* a timezone
WebSyncStart(r, limit, project_id, user, body, now) ==
    /\ req[r].pc = "idle"
    /\ started < limit
    /\ started' = started + 1
    /\ now \in clock..MaxClock
    /\ clock' = now
    /\ LET q == [IdleReq EXCEPT !.endpoint = "sync_web_features",
                                !.project_id = project_id, !.user = user,
                                !.body = body]
       IN  req' = [req EXCEPT ![r] =
              IF ~ProjectExists(project_id) THEN Respond(q, 404, "not found")
              ELSE IF body = "notobject" THEN Respond(q, 400, "invalid request")
              ELSE LET b == [q EXCEPT !.pc = "webapplying",
                                      !.server_time = now,
                                      !.n = IF body = "list" THEN 0 ELSE MaxBatch]
                   IN  IF body = "notlist" THEN Failed(b, "exception") ELSE b]
    /\ UNCHANGED <<features, points, prev>>

\* sync_web_features, lines 394-499: the next entry of the batch; an
\* exception is caught at line 581
WebSyncEntry(r, e) ==
    /\ req[r].pc = "webapplying"
    /\ req[r].n < MaxBatch
    /\ \E res \in WebApplyEntry(r, e) :
          /\ res.st # "blocked"
          /\ LET q == [req[r] EXCEPT !.n = @ + 1,
                                     !.sf = res.sf, !.sp = res.sp,
                                     !.processed = res.processed,
                                     !.pushed = IF e.kind = "object" /\ e.client_id # NoneStr
                                                THEN @ \cup {e.client_id} ELSE @,
                                     !.acts = @ \cup {res.tag},
                                     !.last = <<e>>]
             IN  IF res.st = "raise"
                 THEN /\ req' = [req EXCEPT ![r] =
                                    [Failed(q, "exception") EXCEPT !.last = <<e>>,
                                                                   !.acts = q.acts]]
                      /\ features' = SessionRollback(features, res.sf)
                      /\ points' = SessionRollback(points, res.sp)
                 ELSE /\ req' = [req EXCEPT ![r] = q]
                      /\ UNCHANGED <<features, points>>
    /\ UNCHANGED <<clock, started, prev>>

\* sync_web_features, lines 351-363 and 501-568; the commit of lines 570-579
\* is the step SyncCommit
WebSyncExtract(r, last_sync) ==
    /\ req[r].pc = "webapplying"
    /\ LET last_sync_dt == parse_iso_datetime(last_sync)
       IN  req' = [req EXCEPT ![r].pc = "extracted",
                              ![r].last = <<>>,
                              ![r].cursor = last_sync_dt,
                              ![r].changes = web_server_features(
                                  ViewF(r), ViewP(r), req[r].project_id,
                                  last_sync_dt, Range(req[r].processed))]
    /\ UNCHANGED <<clock, features, points, started, prev>>

\* lines 202-207: the store raises while the batch is applied, the changes
\* are read or the transaction is committed
StorageFailure(r) ==
    /\ req[r].pc \in {"applying", "extracted"}
    /\ req' = [req EXCEPT ![r] = Failed(req[r], "storage")]
    /\ features' = SessionRollback(features, req[r].sf)
    /\ points' = SessionRollback(points, req[r].sp)
    /\ UNCHANGED <<clock, started, prev>>

\* the response has been sent; the worker takes the next request
Return(r) ==
    /\ req[r].pc = "done"
    /\ req' = [req EXCEPT ![r] = IdleReq]
    /\ UNCHANGED <<clock, features, points, started, prev>>

(***************************************************************************)
(* features.py: update_feature and inactivate_feature.  Each is a request  *)
(* of the web application that loads one Feature by id, changes it and     *)
(* commits; it is one step, taken when no open session holds the rows.     *)
(* updated_at has onupdate=datetime.now (the model files, lines 33-34): a  *)
(* row that is written without a value for updated_at gets the time of     *)
(* the write.                                                              *)
(***************************************************************************)
\* no open session has written the Feature or one of its points
Unlocked(fid) ==
    /\ \A s \in Slots : fid \notin DOMAIN req[s].sf
    /\ \A s \in Slots : \A pid \in DOMAIN req[s].sp : req[s].sp[pid].feature_id # fid

\* lines 716-717 and 800-801 with the rows removed
DeactivatedPoints_removed(pv, fid, now) ==
    [pid \in {p \in DOMAIN pv : pv[p].feature_id # fid} |-> pv[pid]]

\* lines 716-717 and 800-801: every point of the feature becomes inactive
DeactivatedPoints(pv, fid, now) ==
    [pid \in DOMAIN pv |->
        IF pv[pid].feature_id = fid /\ pv[pid].is_active
        THEN [pv[pid] EXCEPT !.is_active = FALSE, !.updated_at = now]
        ELSE pv[pid]]

\* features.py line 797, and the onupdate of updated_at
InactivatedFeature(row, now) ==
    IF row.is_active THEN [row EXCEPT !.is_active = FALSE, !.updated_at = now]
    ELSE row

\* inactivate_feature, lines 782-811.  No project and no user are involved.
inactivate_feature(limit, feature_id, now) ==
    /\ started < limit
    /\ started' = started + 1
    /\ now \in clock..MaxClock
    /\ clock' = now
    /\ IF feature_id = NoRow \/ feature_id \notin DOMAIN features
       THEN UNCHANGED <<features, points>>
       ELSE /\ Unlocked(feature_id)
            /\ features' = [features EXCEPT
                               ![feature_id] = InactivatedFeature(@, now)]
            /\ points' = DeactivatedPoints(points, feature_id, now)
    /\ UNCHANGED <<req, prev>>

\* update_feature, lines 704-709 and 766-767; category is not a column, and
\* a change inside the attributes object is not written
EditedFeature(row, d, user, now) ==
    [row EXCEPT !.name = GetStr(d.name, row.name),
                !.type = GetStr(d.type, row.type),
                !.updated_at = now,
                !.updated_by = user]

\* update_feature, lines 688-777.  d is the body: name and type (or
\* NoneStr), and whether it carries coordinates.  With coordinates, the
\* constructor call of lines 723-732 (737, 753) raises: CollectedPoints has
\* no type (and the Feature a category only when the body carried one);
\* lines 772-777 roll back.
update_feature(limit, feature_id, has_project, d, user, now) ==
    /\ started < limit
    /\ started' = started + 1
    /\ now \in clock..MaxClock
    /\ clock' = now
    /\ IF \/ feature_id = NoRow \/ ~has_project
          \/ feature_id \notin DOMAIN features
          \/ d.coordinates
          \/ ~FeatureRowValid(EditedFeature(features[feature_id], d, user, now))
       THEN UNCHANGED <<features, points>>
       ELSE /\ Unlocked(feature_id)
            /\ features' = [features EXCEPT
                               ![feature_id] = EditedFeature(@, d, user, now)]
            /\ points' = DeactivatedPoints(points, feature_id, now)
    /\ UNCHANGED <<req, prev>>

(***************************************************************************)
(* features.py: save_feature and the geometry of get_project_features.     *)
(***************************************************************************)
\* save_feature, lines 449-523, as a request of worker r.  d is the body:
\* type, category, name (or NoneStr) and coordinates (<<>> when absent, else
\* the rings of a polygon).  The constructor call of lines 463-470 raises on
\* the keywords category and description, which CollectedFeatures does not
\* have (so would the calls of lines 477, 491 and 505 on type): no body
\* gets past line 463, and lines 521-523 roll back.
save_feature(r, limit, project_id, d, user, now) ==
    /\ req[r].pc = "idle"
    /\ started < limit
    /\ started' = started + 1
    /\ now \in clock..MaxClock
    /\ clock' = now
    /\ LET q == [IdleReq EXCEPT !.endpoint = "save_feature",
                                !.project_id = project_id, !.user = user,
                                !.last = <<d>>]
       IN  req' = [req EXCEPT ![r] =
              IF project_id = NoProjectSelected
              THEN Respond(q, 400, "no project")
              ELSE IF d.type = NoneStr \/ d.category = NoneStr \/ d.coordinates = <<>>
              THEN Respond(q, 400, "missing data")
              ELSE Respond(q, 500, "exception")]
    /\ UNCHANGED <<features, points, prev>>

\* lines 633-640 without the closing of lines 642-644
PolygonRing_open(pv, fid) ==
    LET ids == {id \in DOMAIN pv : pv[id].feature_id = fid /\ pv[id].is_active}
        ord == SortedSeq(ids)
    IN  [i \in 1..Len(ord) |-> pv[ord[i]].coords]

\* get_project_features, lines 633-644: the coordinates of the active points
\* of a Polygon feature in the order of feature.points (id order), closed
\* with the first coordinate when the last differs from it
PolygonRing(pv, fid) ==
    LET ids == {id \in DOMAIN pv : pv[id].feature_id = fid /\ pv[id].is_active}
        ord == SortedSeq(ids)
        coordinates == [i \in 1..Len(ord) |-> pv[ord[i]].coords]
    IN  IF coordinates # <<>> /\ coordinates[1] # coordinates[Len(coordinates)]
        THEN Append(coordinates, coordinates[1])
        ELSE coordinates

\* get_project_features, lines 552-556, 592-593 and 633-634: the active
\* Features of the project for which a GeoJSON feature is built: a Point
\* whose first point (active or not) is active, a Line or Polygon with an
\* active point
Rendered(fv, pv, project_id) ==
    {fid \in DOMAIN fv :
        /\ fv[fid].project_id = project_id /\ fv[fid].is_active
        /\ LET all == {id \in DOMAIN pv : pv[id].feature_id = fid}
           IN  IF fv[fid].type = "Point"
               THEN all # {} /\ pv[MinOf(all)].is_active
               ELSE \E id \in all : pv[id].is_active}

\* get_project_features, lines 528-683, as a request of worker r.  The
\* properties of a GeoJSON feature read collected_feature.category (lines
\* 580, 622, 666), which CollectedFeatures does not have: the request
\* answers 500 as soon as one Feature is rendered, and an empty list
\* otherwise.  It writes nothing.
get_project_features(r, project_id) ==
    /\ req[r].pc = "idle"
    /\ LET q == [IdleReq EXCEPT !.endpoint = "get_project_features",
                                !.project_id = project_id]
       IN  req' = [req EXCEPT ![r] =
              IF Rendered(features, points, project_id) # {}
              THEN Respond(q, 500, "exception")
              ELSE Respond(q, 200, "none")]
    /\ UNCHANGED <<clock, features, points, started, prev>>

(***************************************************************************)
(* mobile_api.py: get_active_features, lines 305-375.                      *)
(***************************************************************************)
\* lines 333-352 without is_active=True at line 336
formatted_points_all(pv, fid, project_id) ==
    LET ids == {id \in DOMAIN pv : /\ pv[id].feature_id = fid
                                   /\ pv[id].project_id = project_id}
        ord == SortedSeq(ids)
    IN  [i \in 1..Len(ord) |->
            [client_id |-> pv[ord[i]].client_id,
             coordinates |-> pv[ord[i]].coords,
             attributes |-> pv[ord[i]].attributes,
             created_at |-> isoformat(pv[ord[i]].created_at),
             created_by |-> pv[ord[i]].created_by]]

\* lines 333-352: the active points of the feature in the project, in id
\* order
formatted_points(pv, fid, project_id) ==
    LET ids == {id \in DOMAIN pv : /\ pv[id].feature_id = fid
                                   /\ pv[id].project_id = project_id
                                   /\ pv[id].is_active}
        ord == SortedSeq(ids)
    IN  [i \in 1..Len(ord) |->
            [client_id |-> pv[ord[i]].client_id,
             coordinates |-> pv[ord[i]].coords,
             attributes |-> pv[ord[i]].attributes,
             created_at |-> isoformat(pv[ord[i]].created_at),
             created_by |-> pv[ord[i]].created_by]]

\* lines 316-362: result, one record per active Feature of the project
\* that has formatted points
ActiveFeaturesResult(fv, pv, project_id) ==
    LET ids == {id \in DOMAIN fv : /\ fv[id].project_id = project_id
                                   /\ fv[id].is_active
                                   /\ formatted_points(pv, id, project_id) # <<>>}
        ord == SortedSeq(ids)
    IN  [i \in 1..Len(ord) |->
            [client_id |-> fv[ord[i]].client_id,
             name |-> fv[ord[i]].name,
             created_at |-> isoformat(fv[ord[i]].created_at),
             created_by |-> fv[ord[i]].created_by,
             points |-> formatted_points(pv, ord[i], project_id)]]

\* get_active_features as a request of worker r: 404 for a project that
\* does not exist, else 200 with the result in changes.  It writes nothing
\* and does not commit.
get_active_features(r, project_id) ==
    /\ req[r].pc = "idle"
    /\ LET q == [IdleReq EXCEPT !.endpoint = "get_active_features",
                                !.project_id = project_id]
       IN  req' = [req EXCEPT ![r] =
              IF ~ProjectExists(project_id) THEN Respond(q, 404, "not found")
              ELSE Respond([q EXCEPT !.changes =
                               ActiveFeaturesResult(features, points, project_id)],
                           200, "none")]
    /\ UNCHANGED <<clock, features, points, started, prev>>

(***************************************************************************)
(* Inputs.                                                                 *)
(***************************************************************************)
Coords(v) == [list |-> TRUE, v |-> v]

PointData(client_id, fcode, coords) ==
    [kind |-> "object", client_id |-> client_id, fcode |-> fcode,
     coords |-> coords, attributes |-> <<>>, created_at |-> Missing]

FeatureData(name, draw_layer, type, attributes, pts) ==
    [name |-> name, draw_layer |-> draw_layer, type |-> type,
     attributes |-> attributes, created_at |-> Missing, points |-> pts]

Entry(clientId, deleted, lastModified, data) ==
    [kind |-> "object", clientId |-> clientId, deleted |-> deleted,
     lastModified |-> lastModified, data |-> data]

NotAnObject == [kind |-> "notobject", clientId |-> NoneStr, deleted |-> FALSE,
                lastModified |-> Missing, data |-> <<>>]

Valve == FeatureData("valve", "Water", "Point", <<>>,
                     <<PointData("p1", "Water", Coords(<<1, 2>>))>>)
Cable == FeatureData("cable", "Electric", "Line", <<{<<"timezone", "EST">>}>>,
                     <<PointData("p1", "Elect", Coords(<<3, 4>>))>>)
Rename == FeatureData("main", NoneStr, NoneStr, <<>>, <<>>)
Circle == FeatureData("ring", "Water", "Circle", <<>>, <<>>)
Pipe == FeatureData("pipe", "Water", "Line", <<>>,
                    <<PointData("p2", "Water", Coords(<<5, 6>>))>>)

LastModifiedInputs == {Missing} \cup {Iso(t, 0) : t \in 0..MaxClock + 1}
CursorInputs == {Missing, Garbage, Iso(2, 1)}

\* entries of the batches of the main specification
Entries ==
    {NotAnObject, Entry(NoneStr, FALSE, Iso(1, 0), <<Valve>>)}
    \cup {Entry("a1", TRUE, Missing, <<>>), Entry("a1", FALSE, Iso(1, 0), <<>>)}
    \cup {Entry("a1", FALSE, Iso(1, 0), <<Valve>>)}
    \cup {Entry("a1", FALSE, lm, <<Cable>>) : lm \in LastModifiedInputs}
    \cup {Entry("a1", FALSE, Iso(MaxClock + 1, 0), d) : d \in {<<Rename>>, <<Circle>>}}

Bodies == {"notobject", "notlist", "absent", "list"}

\* Successive requests come from alternating users.
Next ==
    \/ \E project_id \in {1, MissingProject}, body \in Bodies, now \in 1..MaxClock :
            SyncStart(1, MaxRequests, project_id, 1 + (started % 2), body, NoneStr, now)
    \/ \E e \in Entries : SyncEntry(1, e, FALSE)
    \/ \E client_last_sync \in CursorInputs : SyncExtract(1, client_last_sync)
    \/ SyncCommit(1, FALSE)
    \/ StorageFailure(1)
    \/ Return(1)

Spec == Init /\ [][Next]_vars

\* Well-formed batches for one clientId, kept as history so that a later
\* request can be compared with the batch committed before it.  A request
\* comes from user 1 or from the user the alternation gives.
ReplayEntries ==
    {Entry("a1", FALSE, Iso(t, 0), <<Valve>>) : t \in 1..MaxClock}
    \cup {Entry("a1", FALSE, Iso(MaxClock + 1, 0), <<Cable>>)}

NextReplay ==
    \/ \E same \in BOOLEAN, now \in 1..MaxClock :
            SyncStart(1, MaxRequests + 1, 1, IF same THEN 1 ELSE 1 + (started % 2),
                      "list", NoneStr, now)
    \/ \E e \in ReplayEntries : SyncEntry(1, e, TRUE)
    \/ \E client_last_sync \in {Missing} : SyncExtract(1, client_last_sync)
    \/ SyncCommit(1, TRUE)
    \/ Return(1)

SpecReplay == Init /\ [][NextReplay]_vars

\* Two workers serve requests for the same project at the same time, worker r
\* for user r.
ConcEntries ==
    {NotAnObject, Entry("a1", TRUE, Missing, <<>>),
     Entry("a1", FALSE, Iso(MaxClock + 1, 0), <<Valve>>)}

NextConc ==
    \/ \E r \in Slots, now \in 1..MaxClock :
            SyncStart(r, MaxRequests, 1, r, "list", NoneStr, now)
    \/ \E r \in Slots, e \in ConcEntries : SyncEntry(r, e, FALSE)
    \/ \E r \in Slots : SyncExtract(r, Missing)
    \/ \E r \in Slots : SyncCommit(r, FALSE)
    \/ \E r \in Slots : StorageFailure(r)
    \/ \E r \in Slots : Return(r)

SpecConc == Init /\ [][NextConc]_vars

\* Clients of project 1 push two clientIds and pull with a cursor; the
\* second request of a behaviour is a sync of project 2.
PullEntries ==
    {Entry("a1", FALSE, Iso(MaxClock + 1, 0), <<Valve>>),
     Entry("b1", FALSE, Iso(MaxClock + 1, 0), <<Cable>>)}

PullCursors == {Missing, Iso(1, 0)}

NextPull ==
    \/ \E now \in 1..MaxClock :
            SyncStart(1, MaxRequests + 2, IF started = 1 THEN 2 ELSE 1,
                      1 + (started % 2), "list", NoneStr, now)
    \/ \E e \in PullEntries : SyncEntry(1, e, FALSE)
    \/ \E client_last_sync \in PullCursors : SyncExtract(1, client_last_sync)
    \/ SyncCommit(1, FALSE)
    \/ Return(1)

SpecPull == Init /\ [][NextPull]_vars

\* Clients of project 1 create, update and delete one Feature whose payloads
\* carry different points, and pull everything.
PointEntries ==
    {Entry("a1", FALSE, Iso(MaxClock + 1, 0), <<Valve>>),
     Entry("a1", FALSE, Iso(MaxClock + 1, 0), <<Pipe>>),
     Entry("a1", FALSE, Iso(0, 0), <<Pipe>>),
     Entry("a1", TRUE, Missing, <<>>)}

NextPoints ==
    \/ \E now \in 1..MaxClock :
            SyncStart(1, MaxRequests + 1, 1, 1 + (started % 2), "list", NoneStr, now)
    \/ \E e \in PointEntries : SyncEntry(1, e, FALSE)
    \/ \E client_last_sync \in {Missing} : SyncExtract(1, client_last_sync)
    \/ SyncCommit(1, FALSE)
    \/ Return(1)

SpecPoints == Init /\ [][NextPoints]_vars

\* an entry of sync_web_features; the handler reads no time of the edit,
\* whatever the client sends as lastModified
WebEntry(client_id, type, draw_layer, name, coords) ==
    [kind |-> "object", client_id |-> client_id, type |-> type,
     draw_layer |-> draw_layer, name |-> name, attributes |-> <<>>,
     created_at |-> Missing, coords |-> coords, lastModified |-> Missing]

WebValve == WebEntry("a1", "Point", "Water", "valve", Coords(<<7, 8>>))

\* an edit of the web application that was made at the instant 0
WebHydrant ==
    [WebEntry("a1", "Point", "Water", "hydrant", Coords(<<7, 8>>))
        EXCEPT !.lastModified = Iso(0, 0)]

\* a body of update_feature
Edit(name, type, coordinates) ==
    [name |-> name, type |-> type, coordinates |-> coordinates]

\* a body of save_feature
Drawing(type, category, name, coordinates) ==
    [type |-> type, category |-> category, name |-> name,
     coordinates |-> coordinates]

\* the closed ring [[0,0],[1,0],[1,1],[0,0]]
Ring == <<<<0, 0>>, <<1, 0>>, <<1, 1>>, <<0, 0>>>>

Drawings == {Drawing("Polygon", "Water", "lot", <<Ring>>),
             Drawing("Polygon", "Water", "lot", <<>>)}

\* The mobile clients and the web application work on one Feature of
\* project 1, one request after the other.
WebMobileEntries ==
    {Entry("a1", FALSE, Iso(MaxClock + 1, 0), <<Valve>>),
     Entry("a1", TRUE, Missing, <<>>)}

NextWeb ==
    \/ \E now \in 1..MaxClock :
            SyncStart(1, MaxRequests + 1, 1, 1 + (started % 2), "list", NoneStr, now)
    \/ \E e \in WebMobileEntries : SyncEntry(1, e, FALSE)
    \/ \E client_last_sync \in {Missing} : SyncExtract(1, client_last_sync)
    \/ \E now \in 1..MaxClock :
            WebSyncStart(1, MaxRequests + 1, 1, 1 + (started % 2), "list", now)
    \/ \E e \in {WebValve, WebHydrant} : WebSyncEntry(1, e)
    \/ \E last_sync \in {Missing, Iso(0, 0)} : WebSyncExtract(1, last_sync)
    \/ SyncCommit(1, FALSE)
    \/ Return(1)
    \/ \E now \in 1..MaxClock : inactivate_feature(MaxRequests + 1, 1, now)
    \/ \E d \in {Edit("main", NoneStr, FALSE), Edit("main", "Line", TRUE)},
          now \in 1..MaxClock :
            update_feature(MaxRequests + 1, 1, TRUE, d, 1 + (started % 2), now)
    \/ \E project_id \in {NoProjectSelected, 1}, d \in Drawings, now \in 1..MaxClock :
            save_feature(1, MaxRequests + 1, project_id, d, 1 + (started % 2), now)

SpecWeb == Init /\ [][NextWeb]_vars

\* Mobile clients push a Polygon Feature of project 1 whose payload lists
\* one vertex, an open ring or a closed ring; the web application edits the
\* Feature without geometry and reads the project's features.
Vertex(client_id, x, y) == PointData(client_id, "Water", Coords(<<x, y>>))

Lot(pts) == FeatureData("lot", "Water", "Polygon", <<>>, pts)

GeoEntries ==
    {Entry("g1", FALSE, Iso(MaxClock + 1, 0), <<Lot(pts)>>) :
        pts \in {<<Vertex("v1", 0, 0)>>,
                 <<Vertex("v1", 0, 0), Vertex("v2", 1, 0), Vertex("v3", 1, 1)>>,
                 <<Vertex("v1", 0, 0), Vertex("v2", 1, 0), Vertex("v3", 1, 1),
                   Vertex("v4", 0, 0)>>}}

NextGeo ==
    \/ \E now \in 1..MaxClock :
            SyncStart(1, MaxRequests, 1, 1 + (started % 2), "list", NoneStr, now)
    \/ \E e \in GeoEntries : SyncEntry(1, e, FALSE)
    \/ \E client_last_sync \in {Missing} : SyncExtract(1, client_last_sync)
    \/ SyncCommit(1, FALSE)
    \/ Return(1)
    \/ \E now \in 1..MaxClock :
            update_feature(MaxRequests, 1, TRUE, Edit("main", NoneStr, FALSE),
                           1 + (started % 2), now)
    \/ get_project_features(1, 1)

SpecGeo == Init /\ [][NextGeo]_vars

\* Mobile clients and the web application push one Point Feature of
\* project 1 whose coords is a pair, a list of one element or a value that
\* is not a list (a number, null).
NotAList == [list |-> FALSE, v |-> <<>>]

CoordsInputs == {Coords(<<1, 2>>), Coords(<<5>>), NotAList}

CoordsEntries ==
    {Entry("a1", FALSE, Iso(MaxClock + 1, 0),
           <<FeatureData("valve", "Water", "Point", <<>>,
                         <<PointData("p1", "Water", coords)>>)>>)
        : coords \in CoordsInputs}

WebCoordsEntries ==
    {WebEntry("a1", "Point", "Water", "valve", coords) : coords \in CoordsInputs}

NextCoords ==
    \/ \E now \in 1..MaxClock :
            SyncStart(1, MaxRequests + 1, 1, 1 + (started % 2), "list", NoneStr, now)
    \/ \E e \in CoordsEntries : SyncEntry(1, e, FALSE)
    \/ \E client_last_sync \in {Missing} : SyncExtract(1, client_last_sync)
    \/ \E now \in 1..MaxClock :
            WebSyncStart(1, MaxRequests + 1, 1, 1 + (started % 2), "list", now)
    \/ \E e \in WebCoordsEntries : WebSyncEntry(1, e)
    \/ \E last_sync \in {Missing} : WebSyncExtract(1, last_sync)
    \/ SyncCommit(1, FALSE)
    \/ Return(1)

SpecCoords == Init /\ [][NextCoords]_vars

\* Clients of project 1 push one Feature whose attribute maps, and those of
\* its point, are absent, carry a timezone or carry another key.  The
\* requests of user 1 have no timezone field, those of user 2 send "CET".
ClientTimezone(user) == IF user = 1 THEN NoneStr ELSE "CET"

Attributed(feature_attributes, point_attributes) ==
    FeatureData("valve", "Water", "Point", feature_attributes,
                <<[PointData("p1", "Water", Coords(<<1, 2>>))
                     EXCEPT !.attributes = point_attributes]>>)

TzEntries ==
    {Entry("a1", FALSE, Iso(MaxClock + 1, 0), <<d>>) :
        d \in {Attributed(<<>>, <<{<<"depth", "2">>}>>),
               Attributed(<<{<<"timezone", "EST">>, <<"depth", "2">>}>>,
                          <<{<<"timezone", "EST">>}>>),
               Attributed(<<{<<"depth", "2">>}>>, <<>>)}}

NextTz ==
    \/ \E now \in 1..MaxClock :
            SyncStart(1, MaxRequests + 1, 1, 1 + (started % 2), "list",
                      ClientTimezone(1 + (started % 2)), now)
    \/ \E e \in TzEntries : SyncEntry(1, e, FALSE)
    \/ \E client_last_sync \in {Missing} : SyncExtract(1, client_last_sync)
    \/ SyncCommit(1, FALSE)
    \/ Return(1)

SpecTz == Init /\ [][NextTz]_vars

\* Mobile clients push one Point Feature of the layer Water whose point
\* payload names the fcode of that layer, the fcode of another layer or no
\* fcode; the web application pushes the Feature under the layer Water or
\* Electric.
FcodeEntries ==
    {Entry("a1", FALSE, Iso(MaxClock + 1, 0),
           <<FeatureData("valve", "Water", "Point", <<>>,
                         <<PointData("a1", fcode, Coords(<<1, 2>>))>>)>>)
        : fcode \in {"Water", "Elect", NoneStr}}

WebFcodeEntries ==
    {WebEntry("a1", "Point", draw_layer, "valve", Coords(<<7, 8>>))
        : draw_layer \in {"Water", "Electric"}}

NextFcode ==
    \/ \E now \in 1..MaxClock :
            SyncStart(1, MaxRequests + 1, 1, 1 + (started % 2), "list", NoneStr, now)
    \/ \E e \in FcodeEntries : SyncEntry(1, e, FALSE)
    \/ \E client_last_sync \in {Missing} : SyncExtract(1, client_last_sync)
    \/ \E now \in 1..MaxClock :
            WebSyncStart(1, MaxRequests + 1, 1, 1 + (started % 2), "list", now)
    \/ \E e \in WebFcodeEntries : WebSyncEntry(1, e)
    \/ \E last_sync \in {Missing} : WebSyncExtract(1, last_sync)
    \/ SyncCommit(1, FALSE)
    \/ Return(1)

SpecFcode == Init /\ [][NextFcode]_vars

\* Client A (user 1) syncs project 1 twice while client B (user 2) syncs
\* it.  Worker 1 serves A's first request and keeps its response; worker 2
\* serves B's requests and, once A has its first response, A's second
\* request, whose lastSyncTimestamp is the serverTimestamp of the first.
Acknowledged == req[1].pc = "done" /\ req[1].status = 200

CursorEntries ==
    {Entry("a1", FALSE, Iso(MaxClock + 1, 0), <<Valve>>),
     Entry("b1", FALSE, Iso(MaxClock + 1, 0), <<Cable>>)}

NextCursor ==
    \/ \E now \in 1..MaxClock :
            SyncStart(1, MaxRequests + 1, 1, 1, "list", NoneStr, now)
    \/ \E second \in BOOLEAN, now \in 1..MaxClock :
            SyncStart(2, IF second /\ ~Acknowledged THEN 0 ELSE MaxRequests + 1,
                      1, IF second THEN 1 ELSE 2, "list", NoneStr, now)
    \/ \E r \in Slots, e \in CursorEntries : SyncEntry(r, e, FALSE)
    \/ \E r \in Slots :
            SyncExtract(r, IF r = 2 /\ req[r].user = 1
                           THEN isoformat(req[1].server_time) ELSE Missing)
    \/ \E r \in Slots : SyncCommit(r, FALSE)
    \/ Return(2)

SpecCursor == Init /\ [][NextCursor]_vars

\* Mobile clients and the web application push the clientId a1 to project 1
\* and to project 2, and the web application edits the Features by id, with
\* and without new coordinates.
NextOwner ==
    \/ \E project_id \in Projects, now \in 1..MaxClock :
            SyncStart(1, MaxRequests + 1, project_id, 1 + (started % 2), "list",
                      NoneStr, now)
    \/ \E e \in {Entry("a1", FALSE, Iso(MaxClock + 1, 0), <<Valve>>)} :
            SyncEntry(1, e, FALSE)
    \/ \E client_last_sync \in {Missing} : SyncExtract(1, client_last_sync)
    \/ \E project_id \in Projects, now \in 1..MaxClock :
            WebSyncStart(1, MaxRequests + 1, project_id, 1 + (started % 2), "list", now)
    \/ \E e \in {WebValve} : WebSyncEntry(1, e)
    \/ \E last_sync \in {Missing} : WebSyncExtract(1, last_sync)
    \/ SyncCommit(1, FALSE)
    \/ Return(1)
    \/ \E feature_id \in 1..2, coordinates \in BOOLEAN, now \in 1..MaxClock :
            update_feature(MaxRequests + 1, feature_id, TRUE,
                           Edit("main", NoneStr, coordinates), 1 + (started % 2), now)

SpecOwner == Init /\ [][NextOwner]_vars

\* Mobile clients create, update and delete the Feature a1 of project 1
\* with the point p1 or p2, the web application deactivates its points or the
\* Feature, and a mobile client reads the active features of a project.
NextActive ==
    \/ \E now \in 1..MaxClock :
            SyncStart(1, MaxRequests + 1, 1, 1 + (started % 2), "list", NoneStr, now)
    \/ \E e \in PointEntries : SyncEntry(1, e, FALSE)
    \/ \E client_last_sync \in {Missing} : SyncExtract(1, client_last_sync)
    \/ SyncCommit(1, FALSE)
    \/ Return(1)
    \/ \E now \in 1..MaxClock : inactivate_feature(MaxRequests + 1, 1, now)
    \/ \E now \in 1..MaxClock :
            update_feature(MaxRequests + 1, 1, TRUE, Edit("main", NoneStr, FALSE),
                           1 + (started % 2), now)
    \/ \E project_id \in {1, 2, MissingProject} : get_active_features(1, project_id)

SpecActive == Init /\ [][NextActive]_vars

TypeOK ==
    /\ clock \in 1..MaxClock
    /\ started \in 0..MaxRequests + 2
    /\ \A r \in Slots :
          req[r].pc \in {"idle", "applying", "webapplying", "extracted", "done"}

(***************************************************************************)
(* Properties.                                                             *)
(***************************************************************************)
\* a non-deleted entry that carries a clientId and a payload
IsUpdateEntry(e) ==
    e.kind = "object" /\ e.clientId # NoneStr /\ ~e.deleted /\ e.data # <<>>

\* the feature rows as worker r's session sees them after the step
ViewFNext(r) == Overlay(features', req'[r].sf)

\* worker r processes an entry and the loop goes on
EntryStep(r) ==
    /\ req[r].pc = "applying"
    /\ req'[r].pc = "applying"
    /\ req'[r].n = req[r].n + 1

\* every field the payload d carries is the row's value
CarriesPayload(row, d) ==
    /\ d.name # NoneStr => row.name = d.name
    /\ d.draw_layer # NoneStr => row.draw_layer = d.draw_layer
    /\ d.type # NoneStr => row.type = d.type
    /\ OrEmpty(d.attributes) \subseteq row.attributes

\* the non-deleted entry with a payload that worker r has just processed
\* with the loop going on, if any
UpdateStep(r) ==
    IF EntryStep(r) /\ IsUpdateEntry(req'[r].last[1]) THEN {req'[r].last[1]} ELSE {}

\* C1: last-writer-wins.  When sync_project processes a non-deleted entry
\* for an existing Feature whose updated_at is T, a lastModified strictly
\* less than T leaves the Feature row unchanged and a lastModified strictly
\* greater than T overwrites name, draw_layer, type and attributes from the
\* payload.
C1_LastWriterWins ==
    [][\A e \in UpdateStep(1) :
          \A fid \in FeatureMatches(1, e.clientId, req[1].project_id) :
             LET old == ViewF(1)[fid]
                 new == ViewFNext(1)[fid]
                 lm == parse_iso_datetime(e.lastModified)
             IN  /\ (lm # NoTime /\ lm < old.updated_at) => new = old
                 /\ lm > old.updated_at => CarriesPayload(new, e.data[1])]_vars

\* a batch of which one entry was stale and another was applied
C1_Witness == req[1].acts = {"stale", "updated"}

\* C2: tie-break.  A non-deleted entry whose lastModified equals the
\* existing Feature's updated_at does not overwrite the Feature's fields and
\* does not advance its updated_at.
C2_TieFavoursServer ==
    [][\A e \in UpdateStep(1) :
          \A fid \in FeatureMatches(1, e.clientId, req[1].project_id) :
             parse_iso_datetime(e.lastModified) = ViewF(1)[fid].updated_at
             => ViewFNext(1)[fid] = ViewF(1)[fid]]_vars

\* an entry whose lastModified equalled the stored updated_at was processed
C2_Witness == "tie" \in req[1].acts

C6_NoEcho ==
    \A r \in Slots :
       req[r].pc \in {"extracted", "done"}
       => \A i \in DOMAIN req[r].changes :
             req[r].changes[i].clientId \notin req[r].pushed

\* an entry that is not an object, lacks its clientId or its data, or
\* carries an invalid field value
Malformed(e) ==
    \/ e.kind # "object"
    \/ e.clientId = NoneStr
    \/ ~e.deleted /\ e.data = <<>>
    \/ ~e.deleted /\ e.data # <<>> /\ e.data[1].type \notin FeatureTypes \cup {NoneStr}

\* C8: failure isolation.  No malformed entry aborts the batch: a batch is
\* never rolled back by the exception of a malformed entry.
C8_MalformedNeverAborts ==
    \A r \in Slots :
       (req[r].error = "exception" /\ req[r].last # <<>>)
       => ~Malformed(req[r].last[1])

\* an entry rejected for a missing required field
MissingField(e) ==
    e.kind = "object" /\ (e.clientId = NoneStr \/ (~e.deleted /\ e.data = <<>>))

\* C9: every entry rejected for a missing required field (no clientId, or
\* no data on a non-deleted entry) is added to the failed list.
C9_RejectedAreFailed ==
    [][\A r \in Slots :
          (EntryStep(r) /\ MissingField(req'[r].last[1]))
          => Len(req'[r].failed) = Len(req[r].failed) + 1]_vars

\* C10: a sync request for a project that does not exist is answered 404
\* and writes no Feature or Point, whatever its body.
C10_MissingProject ==
    [][\A r \in Slots :
          (req'[r].pc # "idle" /\ req'[r].project_id \notin Projects)
          => /\ req'[r].pc = "done" /\ req'[r].status = 404
             /\ req'[r].sf = <<>> /\ req'[r].sp = <<>>
             /\ features' = features /\ points' = points]_vars

\* a request for a missing project was answered while the store holds rows
C10_Witness ==
    /\ req[1].status = 404
    /\ req[1].project_id = MissingProject
    /\ features # <<>>

\* worker r commits
CommitStep(r) == req[r].pc = "extracted" /\ req'[r].status = 200

\* the batch is one non-deleted entry with a dated payload, processed
\* against a Feature that existed
OneUpdate(batch, acts) ==
    /\ Len(batch) = 1
    /\ IsUpdateEntry(batch[1])
    /\ parse_iso_datetime(batch[1].lastModified) # NoTime
    /\ acts \subseteq {"updated", "stale", "tie"}

\* C3: when two requests of different clients each carry a non-deleted
\* update of the same existing Feature, with distinct lastModified values,
\* the Feature ends with the payload of the greater lastModified, whichever
\* request was processed first.
C3_GreaterLastModifiedWins ==
    [][(/\ CommitStep(1)
        /\ OneUpdate(prev.batch, prev.acts)
        /\ OneUpdate(req[1].batch, req[1].acts)
        /\ prev.project_id = req[1].project_id
        /\ prev.user # req[1].user
        /\ prev.batch[1].clientId = req[1].batch[1].clientId
        /\ prev.batch[1].lastModified # req[1].batch[1].lastModified)
       => LET e1 == prev.batch[1]
              e2 == req[1].batch[1]
              winner == IF parse_iso_datetime(e1.lastModified)
                           > parse_iso_datetime(e2.lastModified) THEN e1 ELSE e2
          IN  \A fid \in DOMAIN features' :
                 (/\ features'[fid].client_id = winner.clientId
                  /\ features'[fid].project_id = req[1].project_id)
                 => CarriesPayload(features'[fid], winner.data[1])]_vars

\* C4: idempotence.  Committing the batch that the previous committed
\* request of the same client carried leaves the Feature and Point rows as
\* they were, with the same processed set.
C4_Idempotent ==
    [][(/\ CommitStep(1)
        /\ prev.batch # <<>>
        /\ prev.batch = req[1].batch
        /\ prev.project_id = req[1].project_id
        /\ prev.user = req[1].user)
       => /\ features' = features
          /\ points' = points
          /\ Range(req[1].processed) = Range(prev.processed)]_vars

\* the records worker s may be shown: committed rows and rows of its session
CleanRecords(s) ==
    LET fv == Overlay(features, req[s].sf)
        pv == Overlay(points, req[s].sp)
    IN  {ChangeRecord(fv, pv, fid) : fid \in DOMAIN fv}

\* the records of rows that some other worker has written and not committed
DirtyRecords(s) ==
    UNION {LET fv == Overlay(features, req[r].sf)
               pv == Overlay(points, req[r].sp)
           IN  {ChangeRecord(fv, pv, fid) : fid \in DOMAIN req[r].sf}
           : r \in Slots \ {s}}

\* C7: the committed rows change only in the commit step of a request, and
\* then by all the writes of its batch at once; a request that ends with 500
\* leaves the committed rows as they were and drops every write of its
\* batch; the changes a request collects never hold a row that another
\* request has written and not committed.
C7_BatchAtomicity ==
    [][/\ (features' # features \/ points' # points) =>
            \E r \in Slots : /\ CommitStep(r)
                             /\ features' = Overlay(features, req[r].sf)
                             /\ points' = Overlay(points, req[r].sp)
       /\ \A r \in Slots :
            (req[r].status # 500 /\ req'[r].status = 500) =>
                /\ features' = features /\ points' = points
                /\ req'[r].sf = <<>> /\ req'[r].sp = <<>>
                /\ req'[r].processed = <<>> /\ req'[r].changes = <<>>
       /\ \A s \in Slots :
            (req[s].pc = "applying" /\ req'[s].pc = "extracted") =>
                Range(req'[s].changes) \cap (DirtyRecords(s) \ CleanRecords(s)) = {}]_vars

\* a batch created a feature, then raised: nothing of it is committed, while
\* the other worker is in the middle of its own batch
C7_Witness ==
    \E r \in Slots :
        /\ req[r].status = 500 /\ "created" \in req[r].acts
        /\ features = <<>> /\ points = <<>>
        /\ \E s \in Slots \ {r} : req[s].pc = "applying" /\ req[s].sf # <<>>

\* C11: a sync request for an existing project whose body is not an object,
\* has no features field or has a features value that is not a sequence
\* is answered with a failure status (400 or 500), never with a success.
C11_BodyValidated ==
    \A r \in Slots :
        (/\ req[r].pc = "done"
         /\ req[r].endpoint = "sync_project"
         /\ ProjectExists(req[r].project_id)
         /\ req[r].body \in {"notobject", "absent", "notlist"})
        => req[r].status \in {400, 500}

Shown(r) ==
    {fid \in DOMAIN ViewF(r) :
        \E i \in DOMAIN req[r].changes :
            /\ req[r].changes[i].clientId = ViewF(r)[fid].client_id
            /\ req[r].changes[i].project_id = ViewF(r)[fid].project_id
            /\ req[r].changes[i].lastModified = isoformat(ViewF(r)[fid].updated_at)}

\* C13: the changes of a sync response hold a record for every Feature of
\* the requested project whose updated_at is greater than the cursor and
\* whose clientId was not pushed in the batch; they hold no Feature of
\* another project and no Feature whose updated_at is at most the cursor.
C13_ChangeSetFilter ==
    \A r \in Slots :
        req[r].pc = "extracted" =>
            /\ \A fid \in DOMAIN ViewF(r) :
                  (/\ ViewF(r)[fid].project_id = req[r].project_id
                   /\ ViewF(r)[fid].updated_at > req[r].cursor
                   /\ ViewF(r)[fid].client_id \notin req[r].pushed)
                  => fid \in Shown(r)
            /\ \A i \in DOMAIN req[r].changes :
                  /\ req[r].changes[i].project_id = req[r].project_id
                  /\ parse_iso_datetime(req[r].changes[i].lastModified) > req[r].cursor

\* a pull that is shown a Feature it did not push, while the project holds
\* a Feature that is not newer than the cursor and another project holds a
\* Feature that is
C13_Witness ==
    /\ req[1].pc = "extracted"
    /\ \E fid \in DOMAIN features :
          /\ features[fid].project_id = req[1].project_id
          /\ features[fid].updated_at > req[1].cursor
          /\ features[fid].client_id \notin req[1].pushed
          /\ fid \in Shown(1)
    /\ \E fid \in DOMAIN features :
          /\ features[fid].project_id = req[1].project_id
          /\ features[fid].updated_at <= req[1].cursor
    /\ \E fid \in DOMAIN features :
          /\ features[fid].project_id # req[1].project_id
          /\ features[fid].updated_at > req[1].cursor

\* the client ids of the active points of Feature fid as worker r sees them
ActivePointIds(r, fid) ==
    {ViewP(r)[pid].client_id :
        pid \in {p \in DOMAIN ViewP(r) : /\ ViewP(r)[p].feature_id = fid
                                          /\ ViewP(r)[p].is_active}}

\* C14: in the changes of a sync response, the record of an inactive
\* Feature has deleted = true and no points; the record of an active Feature
\* has deleted = false and exactly the Feature's active points.
C14_ChangeRecordPoints ==
    \A r \in Slots :
        req[r].pc = "extracted" =>
            \A fid \in Shown(r) : \A i \in DOMAIN req[r].changes :
                LET row == ViewF(r)[fid]
                    rec == req[r].changes[i]
                IN  (/\ rec.clientId = row.client_id
                     /\ rec.project_id = row.project_id
                     /\ rec.lastModified = isoformat(row.updated_at))
                    => /\ rec.deleted = ~row.is_active
                       /\ ~row.is_active => rec.points = <<>>
                       /\ row.is_active =>
                            /\ \A j \in DOMAIN rec.points : rec.points[j].is_active
                            /\ {rec.points[j].client_id : j \in DOMAIN rec.points}
                                 = ActivePointIds(r, fid)

\* record i of the changes of worker r says that its Feature is deleted;
\* a record of sync_web_features has no such field
SaysDeleted(r, i) ==
    req[r].endpoint = "sync_project" /\ req[r].changes[i].deleted

\* C15: a pull of either sync endpoint whose cursor is earlier than the
\* deletion of a Feature that an earlier request soft-deleted returns the
\* Feature as a change with deleted = true.
C15_DeletionPropagates ==
    \A r \in Slots :
        req[r].pc = "extracted" =>
            \A fid \in DOMAIN features :
                (/\ features[fid].project_id = req[r].project_id
                 /\ ~features[fid].is_active
                 /\ req[r].cursor # NoTime
                 /\ features[fid].updated_at > req[r].cursor
                 /\ features[fid].client_id \notin req[r].pushed)
                => \E i \in DOMAIN req[r].changes :
                      /\ req[r].changes[i].clientId = features[fid].client_id
                      /\ SaysDeleted(r, i)

\* C16: no step removes a stored Feature or Point row: the sets of stored
\* rows only grow, and a stored row keeps its id, its client_id and its
\* owner, whatever sync, update_feature or inactivate_feature does to it.
C16_NoRemoval ==
    [][/\ DOMAIN features \subseteq DOMAIN features'
       /\ DOMAIN points \subseteq DOMAIN points'
       /\ \A fid \in DOMAIN features :
            /\ features'[fid].id = features[fid].id
            /\ features'[fid].client_id = features[fid].client_id
            /\ features'[fid].project_id = features[fid].project_id
       /\ \A pid \in DOMAIN points :
            /\ points'[pid].id = points[pid].id
            /\ points'[pid].client_id = points[pid].client_id
            /\ points'[pid].feature_id = points[pid].feature_id]_vars

\* a Feature and its point have been soft-deleted and are still stored
C16_Witness ==
    \E fid \in DOMAIN features :
        /\ ~features[fid].is_active
        /\ \E pid \in DOMAIN points :
              points[pid].feature_id = fid /\ ~points[pid].is_active

\* the point rows as worker r's session sees them after the step
ViewPNext(r) == Overlay(points', req'[r].sp)

\* C17: deactivate-and-replace.  When sync_project applies an update that
\* carries points to an existing Feature, every point of the Feature that
\* was active is inactive afterwards, the active points of the Feature are
\* the points of the payload, and no stored point has new coordinates.
C17_DeactivateAndReplace ==
    [][\A e \in UpdateStep(1) :
          \A fid \in FeatureMatches(1, e.clientId, req[1].project_id) :
             (/\ ClientIsNewer(parse_iso_datetime(e.lastModified),
                               ViewF(1)[fid].updated_at)
              /\ e.data[1].points # <<>>)
             => LET old == ViewP(1)
                    new == ViewPNext(1)
                    before == {pid \in DOMAIN old : /\ old[pid].feature_id = fid
                                                     /\ old[pid].is_active}
                    after == {pid \in DOMAIN new : /\ new[pid].feature_id = fid
                                                    /\ new[pid].is_active}
                IN  /\ \A pid \in before : ~new[pid].is_active
                    /\ {new[pid].client_id : pid \in after}
                         = {e.data[1].points[j].client_id
                            : j \in DOMAIN e.data[1].points}
                    /\ \A pid \in DOMAIN old :
                         new[pid].coords = old[pid].coords]_vars

\* C18: cascade.  In every committed state no active Point belongs to an
\* inactive Feature.
C18_Cascade ==
    \A pid \in DOMAIN points :
        points[pid].is_active =>
            /\ points[pid].feature_id \in DOMAIN features
            /\ features[points[pid].feature_id].is_active

\* C19: whenever a step changes the type of a stored Feature that has
\* points, every point of the Feature that was active is inactive
\* afterwards.
C19_TypeChangeReplacesPoints ==
    [][\A fid \in DOMAIN features :
          (/\ fid \in DOMAIN features'
           /\ features'[fid].type # features[fid].type)
          => \A pid \in DOMAIN points :
                (points[pid].feature_id = fid /\ points[pid].is_active)
                => (pid \in DOMAIN points' /\ ~points'[pid].is_active)]_vars

\* C20: in every committed state at most one Feature row exists for a
\* project_id and a client_id, also when two requests that create the same
\* new clientId are served at the same time.
C20_UniqueClientId ==
    \A f1, f2 \in DOMAIN features :
        (/\ features[f1].project_id = features[f2].project_id
         /\ features[f1].client_id = features[f2].client_id)
        => f1 = f2

\* the entry that worker r has just processed, if the step is one of the
\* loop of line 64 (the loop goes on, or the entry raised)
ProcessedEntry(r) ==
    IF req[r].pc = "applying" /\ req'[r].last # <<>> THEN {req'[r].last[1]} ELSE {}

\* C21: when sync_project skips a non-deleted entry whose lastModified is
\* not greater than the existing Feature's updated_at, no Point of that
\* Feature is created or modified by the entry, and the entry's clientId is
\* not added to failed.
C21_StaleEntryDiscarded ==
    [][\A e \in UpdateStep(1) :
          \A fid \in FeatureMatches(1, e.clientId, req[1].project_id) :
             LET lm == parse_iso_datetime(e.lastModified)
             IN  (lm # NoTime /\ lm <= ViewF(1)[fid].updated_at)
                 => /\ \A pid \in DOMAIN ViewPNext(1) :
                          ViewPNext(1)[pid].feature_id = fid
                          => /\ pid \in DOMAIN ViewP(1)
                             /\ ViewPNext(1)[pid] = ViewP(1)[pid]
                    /\ req'[1].failed = req[1].failed]_vars

\* C22: a deleted=true entry whose clientId has no Feature row in the
\* project creates and modifies no Feature or Point row, is reported neither
\* as processed nor as failed, and the loop goes on with the next entry.
C22_DeleteOfMissingIsNoOp ==
    [][\A r \in Slots : \A e \in ProcessedEntry(r) :
          (/\ e.kind = "object" /\ e.clientId # NoneStr /\ e.deleted
           /\ FeatureMatches(r, e.clientId, req[r].project_id) = {})
          => /\ EntryStep(r)
             /\ req'[r].sf = req[r].sf /\ req'[r].sp = req[r].sp
             /\ features' = features /\ points' = points
             /\ req'[r].processed = req[r].processed
             /\ req'[r].failed = req[r].failed]_vars

\* a batch deleted a clientId that had no Feature, then created it
C22_Witness ==
    /\ req[1].pc = "applying"
    /\ req[1].acts = {"nodelete", "created"}
    /\ req[1].n = 2

\* C23: on both sync endpoints, a request whose cursor is missing or does
\* not parse pulls everything, as with the cursor epoch zero: its changes
\* hold a record of every Feature of the project whose clientId was not
\* pushed in the batch.  (The cursor of such a request is Epoch in
\* sync_project and NoTime in sync_web_features.)
C23_MissingCursorPullsEverything ==
    \A r \in Slots :
        (/\ req[r].pc = "extracted"
         /\ \/ req[r].cursor = NoTime
            \/ req[r].endpoint = "sync_project" /\ req[r].cursor = Epoch)
        => \A fid \in DOMAIN ViewF(r) :
              (/\ ViewF(r)[fid].project_id = req[r].project_id
               /\ ViewF(r)[fid].client_id \notin req[r].pushed)
              => \E i \in DOMAIN req[r].changes :
                    req[r].changes[i].clientId = ViewF(r)[fid].client_id

\* C24: when a request commits whose batch held two non-deleted entries
\* with the same clientId, the Feature's fields are those of the payload of
\* the later one (the last entry of the batch for that clientId).
C24_LaterEntryOverwrites ==
    [][CommitStep(1) =>
          \A i, j \in DOMAIN req[1].batch :
             LET b == req[1].batch
             IN  (/\ i < j
                  /\ IsUpdateEntry(b[i]) /\ IsUpdateEntry(b[j])
                  /\ b[i].clientId = b[j].clientId
                  /\ \A k \in DOMAIN b : k > j => b[k].clientId # b[j].clientId)
                 => \A fid \in DOMAIN features' :
                       (/\ features'[fid].client_id = b[j].clientId
                        /\ features'[fid].project_id = req[1].project_id)
                       => CarriesPayload(features'[fid], b[j].data[1])]_vars

\* C25: a sync request ends in one of three ways: rejected (400 or 404)
\* straight from validation with nothing written, committed (200), or
\* rolled back (500) with every write of its session dropped.  Entries are
\* processed only before the extraction; the extraction follows the loop
\* and writes nothing; the commit is the step that follows the extraction
\* and stores the writes of that same session; an answered request does
\* nothing more.
C25_OrchestratorOrdering ==
    [][\A r \in Slots :
          /\ (req[r].pc # "done" /\ req'[r].pc = "done") =>
                \/ /\ req'[r].status \in {400, 404}
                   /\ req[r].pc = "idle"
                   /\ features' = features /\ points' = points
                   /\ req'[r].sf = <<>> /\ req'[r].sp = <<>>
                \/ /\ req'[r].status = 200
                   /\ req[r].pc = "extracted"
                   /\ req'[r].changes = req[r].changes
                   /\ req'[r].processed = req[r].processed
                   /\ features' = Overlay(features, req[r].sf)
                   /\ points' = Overlay(points, req[r].sp)
                \/ /\ req'[r].status = 500
                   /\ features' = features /\ points' = points
                   /\ req'[r].sf = <<>> /\ req'[r].sp = <<>>
          /\ (req[r].pc # "extracted" /\ req'[r].pc = "extracted") =>
                /\ req[r].pc \in {"applying", "webapplying"}
                /\ req'[r].sf = req[r].sf /\ req'[r].sp = req[r].sp
                /\ req'[r].processed = req[r].processed
                /\ features' = features /\ points' = points
          /\ (req[r].pc = "extracted" /\ req'[r] # req[r]) => req'[r].pc = "done"
          /\ (req[r].pc = "done" /\ req'[r] # req[r]) => req'[r] = IdleReq
          /\ (features' # features \/ points' # points) =>
                \E s \in Slots : req[s].pc = "extracted" /\ req'[s].status = 200]_vars

\* a request processed a full batch, collected changes and committed them
C25_Witness ==
    /\ req[1].pc = "done" /\ req[1].status = 200
    /\ req[1].n = MaxBatch
    /\ req[1].processed # <<>> /\ req[1].changes # <<>>
    /\ features # <<>>

\* the coordinates a payload point carries
PayloadCoords(pd) == <<pd.coords.v[1], pd.coords.v[2]>>

\* the entry created its Feature: one active row with the payload's fields,
\* one active point per payload point, and the clientId in processed
CreatedAsPayload(e) ==
    LET d == e.data[1]
        made == {fid \in DOMAIN ViewFNext(1) :
                    /\ ViewFNext(1)[fid].client_id = e.clientId
                    /\ ViewFNext(1)[fid].project_id = req[1].project_id}
    IN  /\ Cardinality(made) = 1
        /\ \A fid \in made :
              LET pts == {pid \in DOMAIN ViewPNext(1) :
                             ViewPNext(1)[pid].feature_id = fid}
              IN  /\ fid \notin DOMAIN ViewF(1)
                  /\ ViewFNext(1)[fid].is_active
                  /\ CarriesPayload(ViewFNext(1)[fid], d)
                  /\ Cardinality(pts) = Len(d.points)
                  /\ \A j \in DOMAIN d.points : \E pid \in pts :
                        /\ ViewPNext(1)[pid].client_id = d.points[j].client_id
                        /\ ViewPNext(1)[pid].coords = PayloadCoords(d.points[j])
                        /\ ViewPNext(1)[pid].is_active
        /\ e.clientId \in Range(req'[1].processed)

\* the changes of the request hold one record for the entry's clientId,
\* with deleted = false and the payload's points in their order
PulledAsCreated(e) ==
    LET d == e.data[1]
        recs == {i \in DOMAIN req[1].changes :
                    req[1].changes[i].clientId = e.clientId}
    IN  /\ Cardinality(recs) = 1
        /\ \A i \in recs :
              /\ ~req[1].changes[i].deleted
              /\ CarriesPayload(req[1].changes[i], d)
              /\ Len(req[1].changes[i].points) = Len(d.points)
              /\ \A j \in DOMAIN d.points :
                    /\ req[1].changes[i].points[j].client_id = d.points[j].client_id
                    /\ req[1].changes[i].points[j].coords = PayloadCoords(d.points[j])

\* the request before this one committed a batch of one entry that created
\* its Feature, and this request pulls without pushing, with a cursor
\* earlier than the instant of that request
PullAfterCreate ==
    /\ req[1].pc = "extracted" /\ req[1].n = 0
    /\ Len(prev.batch) = 1 /\ prev.acts = {"created"}
    /\ prev.project_id = req[1].project_id
    /\ \A fid \in DOMAIN features :
          features[fid].client_id = prev.batch[1].clientId
          => req[1].cursor < features[fid].updated_at

\* C26: create then pull.  A non-deleted entry whose clientId has no
\* Feature row in the project creates one active Feature with the payload's
\* fields and one active Point per payload point, and its clientId is in
\* processed; the next request, a pull with a cursor earlier than the
\* creation, is returned that Feature as one change with deleted = false
\* and exactly those points.
C26_CreateThenPull ==
    [][/\ \A e \in UpdateStep(1) :
             FeatureMatches(1, e.clientId, req[1].project_id) = {}
             => CreatedAsPayload(e)
       /\ PullAfterCreate => PulledAsCreated(prev.batch[1])]_vars

\* a pull that follows the creation of a Feature is about to answer
C26_Witness ==
    /\ PullAfterCreate
    /\ Len(req[1].changes) = 1
    /\ Len(req[1].changes[1].points) = 1

\* the entry that sync_web_features has just processed for worker r with
\* the loop going on, if any
WebUpdateStep(r) ==
    IF /\ req[r].pc = "webapplying" /\ req'[r].pc = "webapplying"
       /\ req'[r].n = req[r].n + 1 /\ req'[r].last[1].client_id # NoneStr
    THEN {req'[r].last[1]} ELSE {}

\* the fields of a Feature that an edit carries
SameFields(new, old) ==
    /\ new.name = old.name /\ new.draw_layer = old.draw_layer
    /\ new.type = old.type /\ new.attributes = old.attributes

\* C27: neither sync_project nor sync_web_features overwrites the fields of
\* an existing Feature when the incoming entry's lastModified is not greater
\* than the stored updated_at.
C27_NoOverwriteByOlderEdit ==
    [][/\ \A e \in UpdateStep(1) :
             \A fid \in FeatureMatches(1, e.clientId, req[1].project_id) :
                LET lm == parse_iso_datetime(e.lastModified)
                IN  (lm # NoTime /\ lm <= ViewF(1)[fid].updated_at)
                    => SameFields(ViewFNext(1)[fid], ViewF(1)[fid])
       /\ \A e \in WebUpdateStep(1) :
             \A fid \in FeatureMatches(1, e.client_id, req[1].project_id) :
                LET lm == parse_iso_datetime(e.lastModified)
                IN  (lm # NoTime /\ lm <= ViewF(1)[fid].updated_at)
                    => SameFields(ViewFNext(1)[fid], ViewF(1)[fid])]_vars

\* C28: the active points of a Feature that stays active are deactivated
\* only in a step that also inserts new points for it; in particular
\* update_feature without coordinates leaves the Feature's set of active
\* points as it was.
C28_DeactivationOnlyWithReplacement ==
    [][\A fid \in DOMAIN features :
          (features[fid].is_active /\ features'[fid].is_active)
          => LET lost == {pid \in DOMAIN points :
                             /\ points[pid].feature_id = fid
                             /\ points[pid].is_active
                             /\ ~points'[pid].is_active}
                 added == {pid \in DOMAIN points' \ DOMAIN points :
                              /\ points'[pid].feature_id = fid
                              /\ points'[pid].is_active}
             IN  lost # {} => added # {}]_vars

\* C29: in every committed state, every active Feature of type Point has
\* exactly one active point.
C29_PointFeatureHasOnePoint ==
    \A fid \in DOMAIN features :
        (features[fid].is_active /\ features[fid].type = "Point")
        => Cardinality({pid \in DOMAIN points : /\ points[pid].feature_id = fid
                                                 /\ points[pid].is_active}) = 1

\* a ring whose first coordinate is its last
ClosedRing(ring) == ring # <<>> /\ ring[1] = ring[Len(ring)]

\* C30: polygon round trip.  When save_feature is given a Polygon whose
\* first ring is closed, it stores a Feature with one point per vertex of
\* the ring, and decoding the stored points in their order gives the same
\* ring, with no coordinate added or dropped.
C30_PolygonRoundTrip ==
    [][\A r \in Slots :
          (/\ req[r].pc = "idle"
           /\ req'[r].pc = "done" /\ req'[r].endpoint = "save_feature"
           /\ req'[r].project_id # NoProjectSelected
           /\ req'[r].last[1].type = "Polygon"
           /\ req'[r].last[1].category # NoneStr
           /\ req'[r].last[1].coordinates # <<>>
           /\ ClosedRing(req'[r].last[1].coordinates[1]))
          => \E fid \in DOMAIN features' \ DOMAIN features :
                PolygonRing(points', fid) = req'[r].last[1].coordinates[1]]_vars

\* the coordinates of the active points of Feature fid, in stored order
ActiveCoords(fid) ==
    LET ids == {id \in DOMAIN points : /\ points[id].feature_id = fid
                                       /\ points[id].is_active}
        ord == SortedSeq(ids)
    IN  [i \in 1..Len(ord) |-> points[ord[i]].coords]

\* C31: for a Polygon Feature with at least one active point, the decoded
\* coordinate list starts and ends with the same coordinate: it is the list
\* of the active points' coordinates when that list is already closed, and
\* that list followed by its first coordinate, once, when it is not.
C31_DecodeClosesRing ==
    \A fid \in DOMAIN features :
        (features[fid].type = "Polygon" /\ ActiveCoords(fid) # <<>>)
        => LET raw == ActiveCoords(fid)
               ring == PolygonRing(points, fid)
           IN  /\ ring[1] = ring[Len(ring)]
               /\ raw[1] = raw[Len(raw)] => ring = raw
               /\ raw[1] # raw[Len(raw)] => ring = Append(raw, raw[1])

\* the store holds a Polygon whose active points form an open ring
C31_Witness ==
    \E fid \in DOMAIN features :
        /\ features[fid].type = "Polygon"
        /\ Len(ActiveCoords(fid)) = 3
        /\ Len(PolygonRing(points, fid)) = 4

\* the store holds a Polygon whose active points form a closed ring
C31_WitnessClosed ==
    \E fid \in DOMAIN features :
        /\ features[fid].type = "Polygon"
        /\ Len(ActiveCoords(fid)) = 4
        /\ Len(PolygonRing(points, fid)) = 4

\* coords is not a list of at least two elements
BadCoords(coords) == ~coords.list \/ Len(coords.v) < 2

\* the point payloads of entry e of worker r's request with such coords, by
\* the client_id of the point they address
BadCoordsPoints(r, e) ==
    IF req[r].endpoint = "sync_web_features"
    THEN IF e.type = "Point" /\ BadCoords(e.coords) THEN {e.client_id} ELSE {}
    ELSE IF e.data = <<>> THEN {}
    ELSE {e.data[1].points[i].client_id : i \in
             {j \in 1..Len(e.data[1].points) : BadCoords(e.data[1].points[j].coords)}}

\* worker r's session holds a point cid, and each such point lies at [0,0]
StoredAtOrigin(r, cid) ==
    /\ \E id \in DOMAIN ViewP(r) : ViewP(r)[id].client_id = cid
    /\ \A id \in DOMAIN ViewP(r) :
          ViewP(r)[id].client_id = cid => ViewP(r)[id].coords = <<0, 0>>

\* C32: on both sync endpoints, after an entry whose point payload has a
\* coords that is not a list of at least two elements, the request has not
\* failed and the point is stored with the coordinate [0,0].
C32_BadCoordsBecomeOrigin ==
    \A r \in Slots :
        (req[r].last # <<>> /\ BadCoordsPoints(r, req[r].last[1]) # {})
        => /\ req[r].status # 500
           /\ \A cid \in BadCoordsPoints(r, req[r].last[1]) : StoredAtOrigin(r, cid)

\* the attribute map written is the map sent (absent: the empty map) with a
\* timezone: the one sent, or else the one of user's request, "UTC" when the
\* request has none
TimezoneBackfilled(written, sent_opt, user) ==
    LET sent == IF sent_opt = <<>> THEN {} ELSE sent_opt[1]
        zone == IF ClientTimezone(user) = NoneStr THEN "UTC" ELSE ClientTimezone(user)
    IN  /\ \E kv \in written : kv[1] = "timezone"
        /\ (\E kv \in sent : kv[1] = "timezone") => written = sent
        /\ ~(\E kv \in sent : kv[1] = "timezone")
              => written = sent \cup {<<"timezone", zone>>}

\* C33: every attribute map that sync_project has written to a Feature or a
\* Point contains the key timezone; after an entry is applied, the Feature's
\* map and the map of each of its payload points are the maps sent, with the
\* timezone sent kept, and otherwise with the request's timezone ("UTC"
\* when the request has none) added and every other key as sent.
C33_TimezoneBackfill ==
    /\ \A id \in DOMAIN features : HasKey(features[id].attributes, "timezone")
    /\ \A id \in DOMAIN points : HasKey(points[id].attributes, "timezone")
    /\ \A r \in Slots :
          (req[r].endpoint = "sync_project" /\ req[r].pc = "applying"
              /\ req[r].last # <<>>)
          => LET e == req[r].last[1]
                 d == e.data[1]
             IN  /\ \E id \in DOMAIN req[r].sf : req[r].sf[id].client_id = e.clientId
                 /\ \A id \in DOMAIN req[r].sf :
                       req[r].sf[id].client_id = e.clientId
                       => TimezoneBackfilled(req[r].sf[id].attributes, d.attributes,
                                             req[r].user)
                 /\ \A i \in 1..Len(d.points) :
                       /\ \E id \in DOMAIN req[r].sp :
                             req[r].sp[id].client_id = d.points[i].client_id
                       /\ \A id \in DOMAIN req[r].sp :
                             req[r].sp[id].client_id = d.points[i].client_id
                             => TimezoneBackfilled(req[r].sp[id].attributes,
                                                   d.points[i].attributes, req[r].user)

\* a request that sent the timezone CET has applied an entry whose maps
\* carry the timezone EST, and the Feature and the point have kept EST
C33_Witness ==
    \E r \in Slots :
        /\ req[r].endpoint = "sync_project" /\ req[r].pc = "applying"
        /\ req[r].tz = "CET"
        /\ req[r].last # <<>>
        /\ HasKey(OrEmpty(req[r].last[1].data[1].attributes), "timezone")
        /\ \E id \in DOMAIN req[r].sf :
              <<"timezone", "EST">> \in req[r].sf[id].attributes
        /\ \E id \in DOMAIN req[r].sp :
              <<"timezone", "EST">> \in req[r].sp[id].attributes

\* a request without a timezone has applied an entry whose Feature map is
\* absent, and the Feature has the timezone UTC
C33_WitnessDefault ==
    \E r \in Slots :
        /\ req[r].endpoint = "sync_project" /\ req[r].pc = "applying"
        /\ req[r].user = 1
        /\ req[r].last # <<>>
        /\ req[r].last[1].data[1].attributes = <<>>
        /\ \E id \in DOMAIN req[r].sf :
              req[r].sf[id].attributes = {<<"timezone", "UTC">>}

\* C34: in every committed state, the fcode of every Point is the first 5
\* characters of the draw_layer of the Feature that owns it.
C34_FcodeIsLayerPrefix ==
    \A id \in DOMAIN points :
        points[id].feature_id \in DOMAIN features
        => points[id].fcode = Prefix5(features[points[id].feature_id].draw_layer)

\* the response of worker r carries the committed Feature row as it is
DeliveredIn(r, row) ==
    \E i \in 1..Len(req[r].changes) :
        /\ req[r].changes[i].clientId = row.client_id
        /\ req[r].changes[i].lastModified = isoformat(row.updated_at)

\* C35: client A sends the serverTimestamp of its first successful sync as
\* the lastSyncTimestamp of its second.  When A holds the second response,
\* every committed Feature change of client B that is not later than that
\* response's serverTimestamp (so that no later cursor of A lies before it) has
\* been delivered in one of A's two responses.
C35_NoMissedChange ==
    (/\ Acknowledged
     /\ req[2].user = 1 /\ req[2].pc = "done" /\ req[2].status = 200
     /\ req[2].cursor = req[1].server_time)
    => \A id \in DOMAIN features :
          (/\ features[id].updated_by = 2
           /\ features[id].updated_at <= req[2].server_time)
          => DeliveredIn(1, features[id]) \/ DeliveredIn(2, features[id])

\* C36: in every step of sync_project, sync_web_features, update_feature
\* and inactivate_feature, a collected Feature that is inactive stays a row
\* of the table and stays inactive, in the table and in every open session.
C36_DeactivationIsPermanent ==
    [][\A id \in DOMAIN features :
          ~features[id].is_active
          => /\ id \in DOMAIN features'
             /\ ~features'[id].is_active
             /\ \A r \in Slots :
                   id \in DOMAIN req'[r].sf => ~req'[r].sf[id].is_active]_vars

\* a request has applied a non-delete entry as an update to a Feature that
\* is inactive in the table, and the Feature is inactive in its session
C36_Witness ==
    \E r \in Slots : \E id \in DOMAIN req[r].sf :
        /\ req[r].pc \in {"applying", "webapplying"}
        /\ "updated" \in req[r].acts
        /\ id \in DOMAIN features
        /\ ~features[id].is_active
        /\ req[r].sf[id].updated_at > features[id].updated_at
        /\ req[r].sf[id].name # features[id].name
        /\ ~req[r].sf[id].is_active

\* C37: in every step of sync_project, sync_web_features and update_feature
\* each committed Point keeps its feature_id, and in the state the step
\* reaches each committed Point belongs to a committed Feature of the Point's
\* own project.
C37_PointsFollowTheirFeature ==
    [][/\ \A id \in DOMAIN points :
             /\ id \in DOMAIN points'
             /\ points'[id].feature_id = points[id].feature_id
       /\ \A id \in DOMAIN points' :
             /\ points'[id].feature_id \in DOMAIN features'
             /\ points'[id].project_id
                   = features'[points'[id].feature_id].project_id]_vars

\* both projects hold a Feature a1 with a point, one of them pushed by the
\* web application, and a point has been deactivated by update_feature
C37_Witness ==
    /\ \A project_id \in Projects :
          \E id \in DOMAIN points :
             /\ points[id].project_id = project_id
             /\ features[points[id].feature_id].client_id = "a1"
    /\ \E id \in DOMAIN points : points[id].client_id = "a1"
    /\ \E id \in DOMAIN points : ~points[id].is_active

\* the rows of table that belong to another project than project_id are
\* rows of before, unchanged
OthersUntouched(before, table, project_id) ==
    \A id \in DOMAIN table :
        table[id].project_id # project_id
        => id \in DOMAIN before /\ before[id] = table[id]

\* C38: after every step of a sync_project request for project P, the rows
\* its session has written are Features and Points of P, the Features and
\* Points of the other projects are in the tables as they were before the
\* step, and its changes hold Features of P only.
C38_ProjectIsolation ==
    [][\A r \in Slots :
          (req'[r].endpoint = "sync_project" /\ req'[r].pc # "idle")
          => /\ \A id \in DOMAIN req'[r].sf :
                   req'[r].sf[id].project_id = req'[r].project_id
             /\ \A id \in DOMAIN req'[r].sp :
                   req'[r].sp[id].project_id = req'[r].project_id
             /\ OthersUntouched(features, features', req'[r].project_id)
             /\ OthersUntouched(points, points', req'[r].project_id)
             /\ \A i \in DOMAIN req'[r].changes :
                   req'[r].changes[i].project_id = req'[r].project_id]_vars

\* a sync of project 2 has committed a Feature a1 with the point p1 while
\* project 1 holds a Feature a1 with a point p1
C38_Witness ==
    /\ req[1].endpoint = "sync_project" /\ req[1].project_id = 2
    /\ req[1].status = 200
    /\ \A project_id \in Projects :
          \E id \in DOMAIN points :
             /\ points[id].client_id = "p1"
             /\ points[id].project_id = project_id
             /\ features[points[id].feature_id].client_id = "a1"
             /\ features[points[id].feature_id].project_id = project_id

\* row is an active Feature of project_id with the identity of record rec,
\* and each point that rec lists is an active point of row
ActiveFeatureOf(rec, fid, project_id) ==
    /\ features[fid].project_id = project_id
    /\ features[fid].is_active
    /\ features[fid].client_id = rec.client_id
    /\ features[fid].name = rec.name
    /\ \A j \in DOMAIN rec.points :
          \E pid \in DOMAIN points :
             /\ points[pid].feature_id = fid
             /\ points[pid].is_active
             /\ points[pid].client_id = rec.points[j].client_id
             /\ points[pid].coords = rec.points[j].coordinates

\* C39: a get_active_features request changes neither table, and each
\* record of its 200 response lists at least one point, is an active
\* Feature of the project, and lists active Points of that Feature only; no
\* record has the clientId of an inactive Feature of the project, and no
\* listed point has the client_id of an inactive Point of its Feature.
C39_OnlyActiveReturned ==
    [][\A r \in Slots :
          (req[r].pc = "idle" /\ req'[r].endpoint = "get_active_features")
          => /\ features' = features /\ points' = points
             /\ \A i \in DOMAIN req'[r].changes :
                   LET rec == req'[r].changes[i]
                   IN  /\ rec.points # <<>>
                       /\ \E fid \in DOMAIN features :
                             ActiveFeatureOf(rec, fid, req'[r].project_id)
                       /\ \A fid \in DOMAIN features :
                             (/\ features[fid].project_id = req'[r].project_id
                              /\ features[fid].client_id = rec.client_id)
                             => /\ features[fid].is_active
                                /\ \A pid \in DOMAIN points :
                                      (/\ points[pid].feature_id = fid
                                       /\ ~points[pid].is_active)
                                      => \A j \in DOMAIN rec.points :
                                            rec.points[j].client_id
                                               # points[pid].client_id]_vars

\* a response that lists the Feature a1 with its active point p2 alone,
\* while its point p1 is inactive
C39_Witness ==
    /\ req[1].endpoint = "get_active_features" /\ req[1].status = 200
    /\ Len(req[1].changes) = 1
    /\ req[1].changes[1].client_id = "a1"
    /\ Len(req[1].changes[1].points) = 1
    /\ req[1].changes[1].points[1].client_id = "p2"
    /\ \E pid \in DOMAIN points : points[pid].client_id = "p1" /\ ~points[pid].is_active

\* a response that is empty while the project holds a Feature: the Feature
\* is soft-deleted or all its points are inactive
C39_WitnessHidden ==
    /\ req[1].endpoint = "get_active_features" /\ req[1].status = 200
    /\ req[1].changes = <<>>
    /\ \E fid \in DOMAIN features : features[fid].project_id = req[1].project_id

====
